---- MODULE Spec2Model ----
(***************************************************************************)
(* A model of the rustysynth engine: envelopes, voices, the voice pool,    *)
(* the per-channel controller state, preset lookup and MIDI file           *)
(* linearization.                                                          *)
(*                                                                         *)
(* Numbers.  Times are counted in samples (1/SAMPLE_RATE s).  Linear gains *)
(* and envelope values are fixed-point with VScale = 1.0, so NON_AUDIBLE   *)
(* (1.0e-3) is 1.  MIDI file times are microseconds.                       *)
(***************************************************************************)
EXTENDS Integers, Sequences, FiniteSets, TLC

VARIABLES
    vol_env,      \* a VolumeEnvelope driven on its own
    mod_env,      \* a ModulationEnvelope driven on its own
    envSel,       \* which of the two envelopes the run drives
    envOp,        \* the envelope operation that produced the state
    chan,         \* a Channel driven by controller messages
    chanOp,       \* the message that produced the state
    lastSel,      \* the selector kind (RPN or NRPN) of the latest selector message
    msgCount,     \* messages sent to chan so far
    pairX,        \* the coarse/fine pair a setter run exercises
    pairOps,      \* the setter calls of that run, oldest first
    presets,      \* SoundFontProc.presets: the (bank, patch) of each preset
    preset_lookup,   \* SoundFontProc.preset_lookup: preset id -> index
    default_preset,  \* SoundFontProc.default_preset (an index into presets)
    lookPc,       \* "loaded" before SoundFontProc::new, then "ready"
    lookQuery,    \* the (bank, patch) of the latest get_regions call
    lookResult,   \* the index of the preset that call resolved to
    smf,          \* the parsed SMF: smf.tracks[t][k] is a track event
    midiPc,       \* "parse", "merge" or "done" in MidiFile::new
    tempo_changes,   \* MidiFile::new: the tempo changes recorded from track 0
    all_evts,     \* MidiFile::new: the queue of MIDI events of each parsed track
    events,       \* MidiFile.events: the linearized list
    channels,     \* Synthesizer.channels: channel number -> Channel
    voices,       \* VoiceCollection.voices: the preallocated slots, 1..capacity
    active_voice_count,   \* VoiceCollection.active_voice_count
    block_size,   \* Synthesizer.block_size
    block_read,   \* Synthesizer.block_read
    synMsgs,      \* the number of messages and resets the synthesizer was sent
    nextId,       \* the number the next started voice is given
    pedalDown,    \* channel -> the hold pedal is on, as the messages sent say
    synOp,        \* the kind of call that produced the state
    settings,   \* the SynthesizerSettings handed to Synthesizer::new
    construction,  \* what Synthesizer::new returned, "none" before the call
    mix,   \* the arguments of one write_block call
    mixed,  \* the destination after the call, <<>> before it
    seqKind,   \* which MidiFileSequencer runs: that of rustysynth-midi or that of rustysynth
    seqFile,   \* the MidiFile handed to new or play
    midi_file,   \* MidiFileSequencer.midi_file
    block_wrote,   \* MidiFileSequencer.block_wrote
    seq_current_time,   \* MidiFileSequencer.current_time, in samples
    msg_index,   \* MidiFileSequencer.msg_index
    dispatched,   \* the process_midi_message calls the sequencer made, oldest first
    rendered,   \* blocks the synthesizer rendered since its latest reset
    seqOps,  \* the play, stop and render calls made so far
    selChan,   \* the channel whose preset is selected
    selBank,   \* value of the last bank select sent, -1 before
    selPatch,   \* value of the last program change sent, -1 before
    selKey,   \* preset id the last note_on looked up, -1 when none since the last selection
    selMsgs,  \* messages sent to the channel
    lfo,   \* the Lfo of SpecLfo
    lfoCalls,   \* render calls on it since its last start
    lfoOut,  \* what the last render returned
    gainVoice,   \* the voice of SpecGain with its mix gains and sends
    gainChan,   \* the channel the voice plays on
    gainActive,   \* whether the voice is among the active voices
    gainDone,   \* successful process calls since its last start
    gainStarts,   \* start calls on the voice
    gainMsgs,   \* controller messages on the channel
    gainOp,  \* the last call on the voice
    cutVoice,   \* the filter fields of the voice of SpecCutoff
    cutRegion,   \* the region of its last start
    cutBlocks,   \* process calls since its last start
    cutOp,  \* the last call on the voice
    rendSamples,   \* samples asked of render since construction or reset
    rendBlocks,  \* render_block calls since construction or reset
    fpOsc,   \* the oscillator of SpecOscillator, its position in fixed point
    fpRead,   \* what its last render call read
    fpCalls   \* render calls since its start

envVars == <<vol_env, mod_env, envSel, envOp>>
chanVars == <<chan, chanOp, lastSel, msgCount>>
pairVars == <<pairX, pairOps>>
lookVars == <<presets, preset_lookup, default_preset, lookPc, lookQuery, lookResult>>
midiVars == <<smf, midiPc, tempo_changes, all_evts, events>>
synVars == <<channels, voices, active_voice_count, block_size, block_read, synMsgs,
             nextId, pedalDown, synOp>>
setVars == <<settings, construction>>
mixVars == <<mix, mixed>>
seqVars == <<seqKind, seqFile, midi_file, block_wrote, seq_current_time, msg_index,
             dispatched, rendered, seqOps>>
selVars == <<selChan, selBank, selPatch, selKey, selMsgs>>
lfoVars == <<lfo, lfoCalls, lfoOut>>
gainVars == <<gainVoice, gainChan, gainActive, gainDone, gainStarts, gainMsgs, gainOp>>
cutVars == <<cutVoice, cutRegion, cutBlocks, cutOp>>
rendVars == <<rendSamples, rendBlocks>>
fpVars == <<fpOsc, fpRead, fpCalls>>

vars == <<vol_env, mod_env, envSel, envOp, chan, chanOp, lastSel, msgCount, pairX, pairOps,
          presets, preset_lookup, default_preset, lookPc, lookQuery, lookResult,
          smf, midiPc, tempo_changes, all_evts, events,
          channels, voices, active_voice_count, block_size, block_read, synMsgs,
          nextId, pedalDown, synOp,
          settings, construction,
          mix, mixed,
          seqKind, seqFile, midi_file, block_wrote, seq_current_time, msg_index,
          dispatched, rendered, seqOps,
          selChan, selBank, selPatch, selKey, selMsgs,
          lfo, lfoCalls, lfoOut,
          gainVoice, gainChan, gainActive, gainDone, gainStarts, gainMsgs, gainOp,
          cutVoice, cutRegion, cutBlocks, cutOp,
          rendSamples, rendBlocks,
          fpOsc, fpRead, fpCalls>>

\* what the steps of one specification leave alone
notEnv == <<chanVars, pairVars, lookVars, midiVars, synVars, setVars, mixVars, seqVars, selVars, lfoVars, gainVars, cutVars, rendVars, fpVars>>
notChan == <<envVars, pairVars, lookVars, midiVars, synVars, setVars, mixVars, seqVars, selVars, lfoVars, gainVars, cutVars, rendVars, fpVars>>
notPair == <<envVars, chanOp, lastSel, msgCount, lookVars, midiVars, synVars, setVars, mixVars, seqVars, selVars, lfoVars, gainVars, cutVars, rendVars, fpVars>>
notLook == <<envVars, chanVars, pairVars, midiVars, synVars, setVars, mixVars, seqVars, selVars, lfoVars, gainVars, cutVars, rendVars, fpVars>>
notMidi == <<envVars, chanVars, pairVars, lookVars, synVars, setVars, mixVars, seqVars, selVars, lfoVars, gainVars, cutVars, rendVars, fpVars>>
notSyn == <<envVars, chanVars, pairVars, lookVars, midiVars, setVars, mixVars, seqVars, selVars, lfoVars, gainVars, cutVars, rendVars, fpVars>>
notFp == <<envVars, chanVars, pairVars, lookVars, midiVars, synVars, setVars, mixVars, seqVars, selVars, lfoVars, gainVars, cutVars, rendVars>>
notRend == <<envVars, chanVars, pairVars, lookVars, midiVars, synVars, setVars, mixVars, seqVars, selVars, lfoVars, gainVars, cutVars, fpVars>>
notSynRend == <<envVars, chanVars, pairVars, lookVars, midiVars, setVars, mixVars, seqVars, selVars, lfoVars, gainVars, cutVars, fpVars>>
notCut == <<envVars, chanVars, pairVars, lookVars, midiVars, synVars, setVars, mixVars, seqVars, selVars, lfoVars, gainVars, rendVars, fpVars>>
notGain == <<envVars, chanVars, pairVars, lookVars, midiVars, synVars, setVars, mixVars, seqVars, selVars, lfoVars, cutVars, rendVars, fpVars>>
notLfo == <<envVars, chanVars, pairVars, lookVars, midiVars, synVars, setVars, mixVars, seqVars, selVars, gainVars, cutVars, rendVars, fpVars>>
notSel == <<envVars, chanVars, pairVars, lookVars, midiVars, synVars, setVars, mixVars, seqVars, lfoVars, gainVars, cutVars, rendVars, fpVars>>
notSeq == <<envVars, chanVars, pairVars, lookVars, midiVars, synVars, setVars, mixVars, selVars, lfoVars, gainVars, cutVars, rendVars, fpVars>>
notMix == <<envVars, chanVars, pairVars, lookVars, midiVars, synVars, setVars, seqVars, selVars, lfoVars, gainVars, cutVars, rendVars, fpVars>>
notSet == <<envVars, chanVars, pairVars, lookVars, midiVars, synVars, mixVars, seqVars, selVars, lfoVars, gainVars, cutVars, rendVars, fpVars>>

(***************************************************************************)
(* Program constants                                                       *)
(***************************************************************************)
SAMPLE_RATE == 44100
BLOCK_SIZE == 64
VScale == 1000
NON_AUDIBLE == 1

(***************************************************************************)
(* Bounds of the model                                                     *)
(***************************************************************************)
MaxEnvTime == 6        \* an envelope is rendered up to this time
MaxEnvParam == 2       \* the longest envelope duration drawn
MaxMsgs == 3           \* controller messages sent to one channel in a run
Capacity == 2          \* voice slots of the synthesizer
MaxVoiceBlocks == 3    \* blocks one voice is rendered for
MaxSeqOps == 4         \* play, stop and render calls on a sequencer in a run
MaxMixLen == 3         \* samples in a mixed block
MaxTrackLen == 2       \* events in one track of a MIDI file
MaxPresets == 2        \* presets in a SoundFont
MaxPairOps == 3        \* setter calls on one coarse/fine pair in a run

Max(a, b) == IF a > b THEN a ELSE b
Min(a, b) == IF a < b THEN a ELSE b
Clamp(v, lo, hi) == IF v < lo THEN lo ELSE IF v > hi THEN hi ELSE v

(***************************************************************************)
(* EnvelopeStage (lib.rs): DELAY < ATTACK < HOLD < DECAY < RELEASE         *)
(***************************************************************************)
DELAY == 0
ATTACK == 1
HOLD == 2
DECAY == 3
RELEASE == 4

EnvelopeStage == DELAY..RELEASE

StageNext(s) == IF s = RELEASE THEN RELEASE ELSE s + 1

StagePriority(s) == 5 - s

(***************************************************************************)
(* exp_cutoff(slope * elapsed) for slope = -9.226 / duration, as a value   *)
(* scaled by VScale.  The exponent is resolved in eighths of the duration; *)
(* at 6/8 and beyond it is below LOG_NON_AUDIBLE and the result is 0.      *)
(* A slope field holds the duration; NoSlope is the slope 0.0 of a         *)
(* defaulted envelope.                                                     *)
(***************************************************************************)
NoSlope == -1

ExpTable == <<1000, 316, 100, 31, 10, 3>>

exp_cutoff(elapsed, duration) ==
    IF duration = NoSlope THEN VScale
    ELSE LET q == (8 * elapsed) \div duration
         IN  IF q < 0 THEN VScale
             ELSE IF q >= 6 THEN 0
             ELSE ExpTable[q + 1]

(***************************************************************************)
(* VolumeEnvelope (volume_envelope.rs)                                     *)
(***************************************************************************)
DefaultVolEnv ==
    [attack_slope |-> NoSlope, decay_slope |-> NoSlope, release_slope |-> NoSlope,
     attack_start_time |-> 0, hold_start_time |-> 0, decay_start_time |-> 0,
     release_start_time |-> 0, sustain_level |-> 0, release_level |-> 0,
     stage |-> DELAY, value |-> 0, current_time |-> 0]

\* the stage a render_ call leaves, as a loop that also leaves DECAY (a bug)
RECURSIVE VolAdvanceStageLeavesDecay(_)
VolAdvanceStageLeavesDecay(env) ==
    IF env.stage <= DECAY
    THEN LET end_time == CASE env.stage = DELAY -> env.attack_start_time
                           [] env.stage = ATTACK -> env.hold_start_time
                           [] env.stage = HOLD -> env.decay_start_time
                           [] OTHER -> env.decay_start_time + env.decay_slope
         IN  IF env.current_time < end_time
             THEN env.stage
             ELSE VolAdvanceStageLeavesDecay([env EXCEPT !.stage = StageNext(@)])
    ELSE env.stage

\* the while loop of render_: the stage after it
RECURSIVE VolAdvanceStage(_)
VolAdvanceStage(env) ==
    IF env.stage <= HOLD
    THEN LET end_time == CASE env.stage = DELAY -> env.attack_start_time
                           [] env.stage = ATTACK -> env.hold_start_time
                           [] env.stage = HOLD -> env.decay_start_time
         IN  IF env.current_time < end_time
             THEN env.stage
             ELSE VolAdvanceStage([env EXCEPT !.stage = StageNext(@)])
    ELSE env.stage

\* the value render_ computes for the stage
VolStageValue(env) ==
    CASE env.stage = DELAY -> 0
      [] env.stage = ATTACK ->
            IF env.attack_slope = NoSlope THEN 0
            ELSE (VScale * (env.current_time - env.attack_start_time)) \div env.attack_slope
      [] env.stage = HOLD -> VScale
      [] env.stage = DECAY ->
            Max(exp_cutoff(env.current_time - env.decay_start_time, env.decay_slope),
                env.sustain_level)
      [] env.stage = RELEASE ->
            (env.release_level
               * exp_cutoff(env.current_time - env.release_start_time, env.release_slope))
            \div VScale

\* render_: the envelope after the call
VolRender_(env) ==
    LET staged == [env EXCEPT !.stage = VolAdvanceStage(env)]
    IN  [staged EXCEPT !.value = VolStageValue(staged)]

\* the bool render_ returns, read off the envelope it leaves
VolAudible(env) ==
    IF env.stage <= HOLD THEN TRUE ELSE env.value > NON_AUDIBLE

VolStart(delay, attack, hold, decay, sustain, release) ==
    VolRender_([attack_slope |-> attack, decay_slope |-> decay, release_slope |-> release,
                attack_start_time |-> delay,
                hold_start_time |-> delay + attack,
                decay_start_time |-> delay + attack + hold,
                release_start_time |-> 0,
                sustain_level |-> Clamp(sustain, 0, VScale),
                release_level |-> 0,
                stage |-> DELAY, value |-> 0, current_time |-> 0])

\* release that records the level and leaves the stage as it is (a bug)
VolReleaseKeepsStage(env) ==
    [env EXCEPT !.release_start_time = env.current_time,
                !.release_level = env.value]

VolRelease(env) ==
    [env EXCEPT !.stage = RELEASE,
                !.release_start_time = env.current_time,
                !.release_level = env.value]

\* render: one sample of time, then render_
VolRender(env) == VolRender_([env EXCEPT !.current_time = @ + 1])

\* process(sample_count): sample_count samples of time, then render_
VolProcess(env, sample_count) == VolRender_([env EXCEPT !.current_time = @ + sample_count])

(***************************************************************************)
(* ModulationEnvelope (modulation_envelope.rs)                             *)
(***************************************************************************)
DefaultModEnv ==
    [attack_slope |-> NoSlope, decay_slope |-> NoSlope, release_slope |-> NoSlope,
     attack_start_time |-> 0, hold_start_time |-> 0, decay_start_time |-> 0,
     decay_end_time |-> 0, release_end_time |-> 0,
     sustain_level |-> 0, release_level |-> 0,
     processed_sample_count |-> 0, stage |-> DELAY, value |-> 0]

RECURSIVE ModAdvanceStage(_)
ModAdvanceStage(env) ==
    IF env.stage <= HOLD
    THEN LET end_time == CASE env.stage = DELAY -> env.attack_start_time
                           [] env.stage = ATTACK -> env.hold_start_time
                           [] env.stage = HOLD -> env.decay_start_time
         IN  IF env.processed_sample_count < end_time
             THEN env.stage
             ELSE ModAdvanceStage([env EXCEPT !.stage = StageNext(@)])
    ELSE env.stage

ModStageValue(env) ==
    LET current_time == env.processed_sample_count
    IN  CASE env.stage = DELAY -> 0
          [] env.stage = ATTACK ->
                IF env.attack_slope = NoSlope THEN 0
                ELSE (VScale * (current_time - env.attack_start_time)) \div env.attack_slope
          [] env.stage = HOLD -> VScale
          [] env.stage = DECAY ->
                Max(IF env.decay_slope = NoSlope THEN 0
                    ELSE (VScale * (env.decay_end_time - current_time)) \div env.decay_slope,
                    env.sustain_level)
          [] env.stage = RELEASE ->
                Max(IF env.release_slope = NoSlope THEN 0
                    ELSE (env.release_level * (env.release_end_time - current_time))
                         \div env.release_slope,
                    0)

ModProcess(env, sample_count) ==
    LET timed == [env EXCEPT !.processed_sample_count = @ + sample_count]
        staged == [timed EXCEPT !.stage = ModAdvanceStage(timed)]
    IN  [staged EXCEPT !.value = ModStageValue(staged)]

ModAudible(env) ==
    IF env.stage <= HOLD THEN TRUE ELSE env.value > NON_AUDIBLE

ModStart(delay, attack, hold, decay, sustain, release) ==
    ModProcess([attack_slope |-> attack, decay_slope |-> decay, release_slope |-> release,
                attack_start_time |-> delay,
                hold_start_time |-> delay + attack,
                decay_start_time |-> delay + attack + hold,
                decay_end_time |-> delay + attack + hold + decay,
                release_end_time |-> release,
                sustain_level |-> Clamp(sustain, 0, VScale),
                release_level |-> 0,
                processed_sample_count |-> 0, stage |-> DELAY, value |-> 0], 0)

ModRelease(env) ==
    [env EXCEPT !.stage = RELEASE,
                !.release_end_time = @ + env.processed_sample_count,
                !.release_level = env.value]


(***************************************************************************)
(* Channel (channel.rs).  i16 fields are integers in -32768..32767; the    *)
(* bit operations work on the two's complement bit patterns.               *)
(***************************************************************************)
RECURSIVE BitAnd(_, _)
BitAnd(a, b) ==
    IF a = 0 \/ b = 0 THEN 0
    ELSE (a % 2) * (b % 2) + 2 * BitAnd(a \div 2, b \div 2)

RECURSIVE BitOr(_, _)
BitOr(a, b) ==
    IF a = 0 THEN b
    ELSE IF b = 0 THEN a
    ELSE Max(a % 2, b % 2) + 2 * BitOr(a \div 2, b \div 2)

\* the low 16 bits of an integer, and the cast `as i16`
Bits16(x) == x % 65536
AsI16(x) == LET u == Bits16(x) IN IF u >= 32768 THEN u - 65536 ELSE u

\* a coarse setter that shifts by 8, one bit too far
SetCoarseShift8(field, value) ==
    AsI16(BitOr(BitAnd(Bits16(field), 127), Bits16(AsI16(value * 256))))

\* set_coarse_fine!, $coarse: (field & 0x7F) | (value << 7) as i16
SetCoarse(field, value) ==
    AsI16(BitOr(BitAnd(Bits16(field), 127), Bits16(AsI16(value * 128))))

\* set_coarse_fine!, $fine: (((field as i32) & 0xFF80) | value) as i16;
\* the mask 0xFF80 keeps bits 7..15 of the sign-extended field
SetFine(field, value) ==
    AsI16(BitOr(BitAnd(Bits16(field), 65408), value))

None == "None"
Rpn == "Rpn"
Nrpn == "Nrpn"

DefaultChannel ==
    [preset_id |-> 0, modulation |-> 0, volume |-> 0, pan |-> 0, expression |-> 0,
     hold_pedal |-> FALSE, reverb_send |-> 0, chorus_send |-> 0,
     rpn |-> 0, pitch_bend_range |-> 0, coarse_tune |-> 0, fine_tune |-> 0,
     pitch_bend |-> 0, last_data_type |-> None]

\* reset_all_controllers that also restores the tuning registers (a bug)
ResetAllControllersAndTuning(ch) ==
    [ch EXCEPT !.modulation = 0,
               !.expression = 127 * 128,
               !.hold_pedal = FALSE,
               !.rpn = -1,
               !.pitch_bend = 0,
               !.pitch_bend_range = 2 * 128,
               !.coarse_tune = 0,
               !.fine_tune = 8192]

ChannelResetAllControllers(ch) ==
    [ch EXCEPT !.modulation = 0,
               !.expression = 127 * 128,
               !.hold_pedal = FALSE,
               !.rpn = -1,
               !.pitch_bend = 0]

ChannelReset(ch) ==
    ChannelResetAllControllers(
        [ch EXCEPT !.preset_id = 0,
                   !.volume = 100 * 128,
                   !.pan = 64 * 128,
                   !.reverb_send = 40,
                   !.chorus_send = 0,
                   !.pitch_bend_range = 2 * 128,
                   !.coarse_tune = 0,
                   !.fine_tune = 8192])

\* Channel::new: a channel as the synthesizer constructs it
ChannelNew == ChannelReset(DefaultChannel)

set_bank(ch, value) == [ch EXCEPT !.preset_id = SetCoarse(@, value)]
set_patch(ch, value) == [ch EXCEPT !.preset_id = SetFine(@, value)]
set_modulation_coarse(ch, value) == [ch EXCEPT !.modulation = SetCoarse(@, value)]
set_modulation_fine(ch, value) == [ch EXCEPT !.modulation = SetFine(@, value)]
set_volume_coarse(ch, value) == [ch EXCEPT !.volume = SetCoarse(@, value)]
set_volume_fine(ch, value) == [ch EXCEPT !.volume = SetFine(@, value)]
set_pan_coarse(ch, value) == [ch EXCEPT !.pan = SetCoarse(@, value)]
set_pan_fine(ch, value) == [ch EXCEPT !.pan = SetFine(@, value)]
set_expression_coarse(ch, value) == [ch EXCEPT !.expression = SetCoarse(@, value)]
set_expression_fine(ch, value) == [ch EXCEPT !.expression = SetFine(@, value)]

set_hold_pedal(ch, value) == [ch EXCEPT !.hold_pedal = (value >= 64)]
set_reverb_send(ch, value) == [ch EXCEPT !.reverb_send = value]
set_chorus_send(ch, value) == [ch EXCEPT !.chorus_send = value]

set_rpn_coarse(ch, value) ==
    [ch EXCEPT !.rpn = SetCoarse(@, value), !.last_data_type = Rpn]
set_rpn_fine(ch, value) ==
    [ch EXCEPT !.rpn = SetFine(@, value), !.last_data_type = Rpn]

\* an NRPN selector that leaves last_data_type alone (a bug)
SetNrpnCoarseKeepsType(ch, value) == ch

set_nrpn_coarse(ch, value) == [ch EXCEPT !.last_data_type = Nrpn]
set_nrpn_fine(ch, value) == [ch EXCEPT !.last_data_type = Nrpn]

set_pbr_coarse(ch, value) == [ch EXCEPT !.pitch_bend_range = SetCoarse(@, value)]
set_pbr_fine(ch, value) == [ch EXCEPT !.pitch_bend_range = SetFine(@, value)]
set_fine_tune_coarse(ch, value) == [ch EXCEPT !.fine_tune = SetCoarse(@, value)]
set_fine_tune_fine(ch, value) == [ch EXCEPT !.fine_tune = SetFine(@, value)]

data_entry_coarse(ch, value) ==
    IF ch.last_data_type # Rpn THEN ch
    ELSE IF ch.rpn = 0 THEN set_pbr_coarse(ch, value)
    ELSE IF ch.rpn = 1 THEN set_fine_tune_coarse(ch, value)
    ELSE IF ch.rpn = 2 THEN [ch EXCEPT !.coarse_tune = value - 64]
    ELSE ch

\* a fine data entry that also writes coarse tune under RPN 2 (a bug)
DataEntryFineSetsCoarseTune(ch, value) ==
    IF ch.last_data_type # Rpn THEN ch
    ELSE IF ch.rpn = 0 THEN set_pbr_fine(ch, value)
    ELSE IF ch.rpn = 1 THEN set_fine_tune_fine(ch, value)
    ELSE IF ch.rpn = 2 THEN [ch EXCEPT !.coarse_tune = value - 64]
    ELSE ch

data_entry_fine(ch, value) ==
    IF ch.last_data_type # Rpn THEN ch
    ELSE IF ch.rpn = 0 THEN set_pbr_fine(ch, value)
    ELSE IF ch.rpn = 1 THEN set_fine_tune_fine(ch, value)
    ELSE ch

\* pitch_bend in units of 1/8192
set_pitch_bend(ch, value) == [ch EXCEPT !.pitch_bend = value - 8192]

get_hold_pedal(ch) == ch.hold_pedal

\* the Controller arm of process_midi_message, for the controllers that
\* only touch the channel
ChannelController(ch, controller, value) ==
    CASE controller = 0 -> set_bank(ch, value)                  \* 0x00
      [] controller = 1 -> set_modulation_coarse(ch, value)     \* 0x01
      [] controller = 33 -> set_modulation_fine(ch, value)      \* 0x21
      [] controller = 6 -> data_entry_coarse(ch, value)         \* 0x06
      [] controller = 38 -> data_entry_fine(ch, value)          \* 0x26
      [] controller = 7 -> set_volume_coarse(ch, value)         \* 0x07
      [] controller = 39 -> set_volume_fine(ch, value)          \* 0x27
      [] controller = 10 -> set_pan_coarse(ch, value)           \* 0x0A
      [] controller = 42 -> set_pan_fine(ch, value)             \* 0x2A
      [] controller = 11 -> set_expression_coarse(ch, value)    \* 0x0B
      [] controller = 43 -> set_expression_fine(ch, value)      \* 0x2B
      [] controller = 64 -> set_hold_pedal(ch, value)           \* 0x40
      [] controller = 91 -> set_reverb_send(ch, value)          \* 0x5B
      [] controller = 93 -> set_chorus_send(ch, value)          \* 0x5D
      [] controller = 99 -> set_nrpn_coarse(ch, value)          \* 0x63
      [] controller = 98 -> set_nrpn_fine(ch, value)            \* 0x62
      [] controller = 101 -> set_rpn_coarse(ch, value)          \* 0x65
      [] controller = 100 -> set_rpn_fine(ch, value)            \* 0x64
      [] controller = 121 -> ChannelResetAllControllers(ch)     \* 0x79
      [] OTHER -> ch

(***************************************************************************)
(* MidiFile::new (rustysynth-midi/src/midifile.rs): linearization of the   *)
(* tracks of an SMF.  Times are whole microseconds.  A track event is      *)
(* [delta, kind, tempo]: kind "tempo" is Meta(Tempo(tempo)), kind "midi" a *)
(* channel message.  A MidiEvent keeps, besides its time, the track,       *)
(* position and absolute tick it came from.                                *)
(***************************************************************************)
DEFAULT_US_PER_BEAT == 500000

\* the seconds (here microseconds) of delta ticks at a tempo
DeltaUs(delta, us_per_beat, ticks_per_beat) == (delta * us_per_beat) \div ticks_per_beat

\* the while loop over tempo_changes: the tempo and index it leaves
RECURSIVE ApplyTempoChanges(_, _, _, _)
ApplyTempoChanges(changes, time, us_per_beat, tempo_idx) ==
    IF tempo_idx <= Len(changes) /\ changes[tempo_idx].time <= time
    THEN ApplyTempoChanges(changes, time, changes[tempo_idx].us_per_beat, tempo_idx + 1)
    ELSE [us_per_beat |-> us_per_beat, tempo_idx |-> tempo_idx]

\* the loop over the events of one track, from event k on
RECURSIVE TrackLoop(_, _, _, _, _, _)
TrackLoop(file, t, k, changes, st, track_evts) ==
    LET track == file.tracks[t]
    IN  IF k > Len(track)
        THEN [tempo_changes |-> changes, track_evts |-> track_evts]
        ELSE LET first_track == (t = 1)
                 evt == track[k]
                 applied == IF first_track
                            THEN [us_per_beat |-> st.us_per_beat, tempo_idx |-> st.tempo_idx]
                            ELSE ApplyTempoChanges(changes, st.time, st.us_per_beat, st.tempo_idx)
                 time == st.time + DeltaUs(evt.delta, applied.us_per_beat, file.ticks_per_beat)
                 tick == st.tick + evt.delta
                 is_tempo == first_track /\ evt.kind = "tempo"
                 us_per_beat == IF is_tempo THEN evt.tempo ELSE applied.us_per_beat
                 changes2 == IF is_tempo
                             THEN Append(changes, [time |-> time, us_per_beat |-> us_per_beat])
                             ELSE changes
                 track_evts2 == IF evt.kind = "midi"
                                THEN Append(track_evts,
                                            [time |-> time, track |-> t, index |-> k, tick |-> tick])
                                ELSE track_evts
             IN  TrackLoop(file, t, k + 1, changes2,
                           [time |-> time, tick |-> tick, us_per_beat |-> us_per_beat,
                            tempo_idx |-> applied.tempo_idx],
                           track_evts2)

ParseTrack(file, t, changes) ==
    TrackLoop(file, t, 1, changes,
              [time |-> 0, tick |-> 0, us_per_beat |-> DEFAULT_US_PER_BEAT, tempo_idx |-> 1],
              <<>>)

\* the first track that still holds an event, whatever its time (a bug)
FirstWaitingTrack(queues) ==
    LET nonempty == {i \in DOMAIN queues : queues[i] # <<>>}
    IN  CHOOSE i \in nonempty : \A j \in nonempty : i <= j

\* the track whose front event is earliest; of equally early fronts the first
EarliestTrack(queues) ==
    LET nonempty == {i \in DOMAIN queues : queues[i] # <<>>}
    IN  CHOOSE i \in nonempty :
           \A j \in nonempty :
              \/ queues[i][1].time < queues[j][1].time
              \/ queues[i][1].time = queues[j][1].time /\ i <= j

Track0Events == [delta : {0, 480}, kind : {"tempo"}, tempo : {500000, 1000000}]
               \cup [delta : {480}, kind : {"midi"}, tempo : {0}]
Track1Events == [delta : {0, 480, 960}, kind : {"midi"}, tempo : {0}]

MidiIdle ==
    /\ smf = [ticks_per_beat |-> 480, tracks |-> <<>>]
    /\ midiPc = "none"
    /\ tempo_changes = <<>>
    /\ all_evts = <<>>
    /\ events = <<>>

(***************************************************************************)
(* Oscillator (oscillator.rs) at pitch ratio 1: position is the whole-     *)
(* sample part of position_fp, length the len() of the View it plays.      *)
(***************************************************************************)
NoLoop == "NoLoop"
Continuous == "Continuous"
LoopUntilNoteOff == "LoopUntilNoteOff"

DefaultOscillator ==
    [loop_mode |-> NoLoop, start_loop |-> 0, end_loop |-> 0, length |-> 0,
     looping |-> FALSE, position |-> 0]

OscStart(loop_mode, length, start_loop, end_loop) ==
    [loop_mode |-> loop_mode, start_loop |-> start_loop, end_loop |-> end_loop,
     length |-> length, looping |-> (loop_mode # NoLoop), position |-> 0]

OscRelease(osc) ==
    IF osc.loop_mode = LoopUntilNoteOff THEN [osc EXCEPT !.looping = FALSE] ELSE osc

\* the position sample_count calls of render leave when looping: each call
\* first steps back by the loop length if it is at or past end_loop
OscLoopedPosition(osc, sample_count) ==
    LET last == osc.position + sample_count - 1
        loop_length == osc.end_loop - osc.start_loop
        wraps == IF last < osc.end_loop THEN 0
                 ELSE ((last - osc.end_loop) \div loop_length) + 1
    IN  osc.position + sample_count - wraps * loop_length

\* a block of sample_count samples: the oscillator after it, and whether
\* the first render call of the block still had a sample to play
OscProcess(osc, sample_count) ==
    IF osc.looping
    THEN [osc |-> [osc EXCEPT !.position = OscLoopedPosition(osc, sample_count)],
          ok |-> TRUE]
    ELSE IF osc.position >= osc.length
         THEN [osc |-> osc, ok |-> FALSE]
         ELSE [osc |-> [osc EXCEPT !.position = Min(@ + sample_count, osc.length)],
               ok |-> TRUE]

(***************************************************************************)
(* Voice (voice.rs).  id is the number of the start() call that filled the *)
(* slot; the code has no such field.                                       *)
(***************************************************************************)
Playing == "Playing"
ReleaseRequested == "ReleaseRequested"
Released == "Released"

MIN_VOICE_LENGTH == SAMPLE_RATE \div 500

\* release times below 10 ms are clamped to 10 ms
MIN_RELEASE == SAMPLE_RATE \div 100

DefaultVoice ==
    [vol_env |-> DefaultVolEnv, oscillator |-> DefaultOscillator,
     channel |-> 0, key |-> 0, velocity |-> 0, note_gain |-> 0,
     voice_state |-> Playing, voice_length |-> 0, id |-> 0]

\* decibels_to_linear(2 * linear_to_decibels(velocity / 127) - 0.4 * attenuation)
\* for attenuation 0: (velocity / 127)^2
NoteGain(velocity) == (VScale * velocity * velocity) \div (127 * 127)

VoiceStart(voice, region, channel, key, velocity, id) ==
    [voice EXCEPT
        !.channel = channel,
        !.key = key,
        !.velocity = velocity,
        !.note_gain = IF velocity > 0 THEN NoteGain(velocity) ELSE 0,
        !.vol_env = VolStart(region.delay, region.attack, region.hold, region.decay,
                             region.sustain, Max(region.release, MIN_RELEASE)),
        !.oscillator = OscStart(region.loop_mode, region.length,
                                region.start_loop, region.end_loop),
        !.voice_state = Playing,
        !.voice_length = 0,
        !.id = id]

\* end() without the test of the state (a bug)
VoiceEndAnyState(voice) == [voice EXCEPT !.voice_state = ReleaseRequested]

VoiceEnd(voice) ==
    IF voice.voice_state = Playing
    THEN [voice EXCEPT !.voice_state = ReleaseRequested]
    ELSE voice

VoiceKill(voice) == [voice EXCEPT !.note_gain = 0]

\* release_if_necessary without the test of the voice's length (a bug)
ReleaseAtAnyLength(voice, channel_info) ==
    IF voice.voice_state = ReleaseRequested /\ ~channel_info.hold_pedal
    THEN [voice EXCEPT !.vol_env = VolRelease(@),
                       !.oscillator = OscRelease(@),
                       !.voice_state = Released]
    ELSE voice

\* release_if_necessary without the test of the hold pedal (a bug)
ReleaseIgnoringPedal(voice, channel_info) ==
    IF voice.voice_length < MIN_VOICE_LENGTH THEN voice
    ELSE IF voice.voice_state = ReleaseRequested
    THEN [voice EXCEPT !.vol_env = VolRelease(@),
                       !.oscillator = OscRelease(@),
                       !.voice_state = Released]
    ELSE voice

ReleaseIfNecessary(voice, channel_info) ==
    IF voice.voice_length < MIN_VOICE_LENGTH THEN voice
    ELSE IF voice.voice_state = ReleaseRequested /\ ~get_hold_pedal(channel_info)
    THEN [voice EXCEPT !.vol_env = VolRelease(@),
                       !.oscillator = OscRelease(@),
                       !.voice_state = Released]
    ELSE voice

\* Voice::process: the voice after the call and the bool it returns; the
\* block it processes has the block size of the synthesizer that owns it
\* Voice::process for a block of sample_count samples
VoiceProcessBlock(voice, channel_info, sample_count) ==
    IF voice.note_gain < NON_AUDIBLE THEN [voice |-> voice, ok |-> FALSE]
    ELSE LET released == ReleaseIfNecessary(voice, channel_info)
             enveloped == [released EXCEPT !.vol_env = VolProcess(@, sample_count)]
         IN  IF ~VolAudible(enveloped.vol_env) THEN [voice |-> enveloped, ok |-> FALSE]
             ELSE LET osc == OscProcess(enveloped.oscillator, sample_count)
                      played == [enveloped EXCEPT !.oscillator = osc.osc]
                  IN  IF ~osc.ok THEN [voice |-> played, ok |-> FALSE]
                      ELSE [voice |-> [played EXCEPT !.voice_length = @ + sample_count],
                            ok |-> TRUE]

VoiceProcess(voice, channel_info) == VoiceProcessBlock(voice, channel_info, block_size)

\* get_priority without the test of note_gain (a bug)
VoicePriorityOfStage(voice) == StagePriority(voice.vol_env.stage)

VoicePriority(voice) ==
    IF voice.note_gain < NON_AUDIBLE THEN 0 ELSE StagePriority(voice.vol_env.stage)

(***************************************************************************)
(* VoiceCollection (voice_collection.rs).  Slots are numbered from 1, so   *)
(* the active slots are 1..active_voice_count.                             *)
(***************************************************************************)
Swap(vs, i, j) == [vs EXCEPT ![i] = vs[j], ![j] = vs[i]]

\* the scan of request_new for the slot to steal, from slot i on
RECURSIVE StealScan(_, _, _, _, _)
StealScan(vs, count, i, candidate, lowest_priority) ==
    IF i > count THEN candidate
    ELSE LET priority == VoicePriority(vs[i])
         IN  IF priority < lowest_priority
             THEN StealScan(vs, count, i + 1, i, priority)
             ELSE IF priority = lowest_priority
                       /\ vs[i].voice_length > vs[candidate].voice_length
             THEN StealScan(vs, count, i + 1, i, lowest_priority)
             ELSE StealScan(vs, count, i + 1, candidate, lowest_priority)

\* request_new with <= for < in the test for a free slot (a bug)
RequestNewOffByOne(vs, count) ==
    IF count <= Len(vs)
    THEN [slot |-> count + 1, count |-> count + 1]
    ELSE [slot |-> StealScan(vs, count, 1, 1, 1000000), count |-> count]

\* request_new: the slot it returns and the active count it leaves
RequestNew(vs, count) ==
    IF count < Len(vs)
    THEN [slot |-> count + 1, count |-> count + 1]
    ELSE [slot |-> StealScan(vs, count, 1, 1, 1000000), count |-> count]

\* process that steps past the voice swapped into i by a removal (a bug)
RECURSIVE PoolProcessSkipping(_, _, _, _)
PoolProcessSkipping(vs, count, i, chs) ==
    IF i >= count + 1 THEN [voices |-> vs, count |-> count]
    ELSE LET r == VoiceProcess(vs[i], chs[vs[i].channel])
             processed == [vs EXCEPT ![i] = r.voice]
         IN  IF r.ok
             THEN PoolProcessSkipping(processed, count, i + 1, chs)
             ELSE PoolProcessSkipping(Swap(processed, i, count), count - 1, i + 1, chs)

\* process that starts again at the first slot after a removal (a bug)
RECURSIVE PoolProcessFromFirst(_, _, _, _)
PoolProcessFromFirst(vs, count, i, chs) ==
    IF i = count + 1 THEN [voices |-> vs, count |-> count]
    ELSE LET r == VoiceProcess(vs[i], chs[vs[i].channel])
             processed == [vs EXCEPT ![i] = r.voice]
         IN  IF r.ok
             THEN PoolProcessFromFirst(processed, count, i + 1, chs)
             ELSE PoolProcessFromFirst(Swap(processed, i, count), count - 1, 1, chs)

\* the loop of process from slot i on
RECURSIVE PoolProcess(_, _, _, _)
PoolProcess(vs, count, i, chs) ==
    IF i = count + 1 THEN [voices |-> vs, count |-> count]
    ELSE LET r == VoiceProcess(vs[i], chs[vs[i].channel])
             processed == [vs EXCEPT ![i] = r.voice]
         IN  IF r.ok
             THEN PoolProcess(processed, count, i + 1, chs)
             ELSE PoolProcess(Swap(processed, i, count), count - 1, i, chs)

(***************************************************************************)
(* Synthesizer (synthesizer.rs)                                            *)
(***************************************************************************)
CHANNEL_COUNT == 15

ChannelNumbers == 0..(CHANNEL_COUNT - 1)

\* the regions of the SoundFont the synthesizer plays, times in samples: a
\* sustained looping one on even keys, a percussive one-shot on odd keys,
\* none on MissKey
MissKey == 72

SustainedRegion ==
    [delay |-> 0, attack |-> 0, hold |-> 0, decay |-> 512, sustain |-> VScale,
     release |-> 0, loop_mode |-> Continuous, length |-> 1024,
     start_loop |-> 256, end_loop |-> 1024]

PercussiveRegion ==
    [delay |-> 0, attack |-> 256, hold |-> 0, decay |-> 512, sustain |-> 0,
     release |-> 0, loop_mode |-> NoLoop, length |-> 2048,
     start_loop |-> 0, end_loop |-> 0]

\* get_regions as note_on sees it: Ok(region) or Err
GetRegions(key, velocity) ==
    IF key = MissKey THEN [ok |-> FALSE, region |-> SustainedRegion]
    ELSE IF key % 2 = 0 THEN [ok |-> TRUE, region |-> SustainedRegion]
    ELSE [ok |-> TRUE, region |-> PercussiveRegion]

\* note_off: end() on the active voices of (channel, key)
NoteOffVoices(vs, count, channel, key) ==
    [i \in DOMAIN vs |->
        IF i <= count /\ vs[i].channel = channel /\ vs[i].key = key
        THEN VoiceEnd(vs[i]) ELSE vs[i]]

\* note_off_all(false): end() on every active voice
EndAllVoices(vs, count) ==
    [i \in DOMAIN vs |-> IF i <= count THEN VoiceEnd(vs[i]) ELSE vs[i]]

\* note_off_all_channel without the test of the voice's channel (a bug)
NoteOffAllChannelVoicesAnyChannel(vs, count, channel, immediate) ==
    [i \in DOMAIN vs |->
        IF i <= count
        THEN (IF immediate THEN VoiceKill(vs[i]) ELSE VoiceEnd(vs[i]))
        ELSE vs[i]]

\* note_off_all_channel
NoteOffAllChannelVoices(vs, count, channel, immediate) ==
    [i \in DOMAIN vs |->
        IF i <= count /\ vs[i].channel = channel
        THEN (IF immediate THEN VoiceKill(vs[i]) ELSE VoiceEnd(vs[i]))
        ELSE vs[i]]

\* a loop of render that renders a block whenever it is entered (a bug)
RECURSIVE RenderLoopAlwaysFresh(_, _, _, _, _, _, _)
RenderLoopAlwaysFresh(vs, count, chs, read, wrote, length, blocks) ==
    IF wrote >= length
    THEN [voices |-> vs, count |-> count, block_read |-> read, blocks |-> blocks]
    ELSE LET pool == PoolProcess(vs, count, 1, chs)
             read0 == IF read = block_size THEN 0 ELSE read
             rem == Min(block_size - read0, length - wrote)
         IN  RenderLoopAlwaysFresh(pool.voices, pool.count, chs, read0 + rem, wrote + rem,
                                   length, blocks + 1)

\* the loop of render for a buffer of length samples: the pool and cursor
\* it leaves and the number of render_block calls it made
RECURSIVE RenderLoop(_, _, _, _, _, _, _)
RenderLoop(vs, count, chs, read, wrote, length, blocks) ==
    IF wrote >= length
    THEN [voices |-> vs, count |-> count, block_read |-> read, blocks |-> blocks]
    ELSE LET fresh == (read = block_size)
             pool == IF fresh THEN PoolProcess(vs, count, 1, chs)
                     ELSE [voices |-> vs, count |-> count]
             read0 == IF fresh THEN 0 ELSE read
             rem == Min(block_size - read0, length - wrote)
         IN  RenderLoop(pool.voices, pool.count, chs, read0 + rem, wrote + rem, length,
                        IF fresh THEN blocks + 1 ELSE blocks)

(***************************************************************************)
(* The parts of the state a specification does not drive stay as they are  *)
(* constructed.                                                            *)
(***************************************************************************)
\* Voice::new with the gains and sends process keeps (voice.rs 89-96)
DefaultGainVoice ==
    [voice |-> DefaultVoice,
     previous_mix_gain_left |-> 0, previous_mix_gain_right |-> 0,
     current_mix_gain_left |-> 0, current_mix_gain_right |-> 0,
     previous_reverb_send |-> 0, previous_chorus_send |-> 0,
     current_reverb_send |-> 0, current_chorus_send |-> 0]

\* the filter fields of Voice::new (voice.rs 97-109) and a region without
\* modulation of the cutoff
DefaultCutVoice ==
    [cutoff |-> 0, smoothed_cutoff |-> 0, mod_lfo_to_cutoff |-> 0,
     mod_env_to_cutoff |-> 0, dynamic_cutoff |-> FALSE]
DefaultCutRegion ==
    [initial_filter_cutoff_frequency |-> 0,
     modulation_lfo_to_filter_cutoff_frequency |-> 0,
     modulation_envelope_to_filter_cutoff_frequency |-> 0]

\* Oscillator::default with the length of its data (oscillator.rs 30-46)
DefaultFpOscillator ==
    [loop_mode |-> NoLoop, start_loop |-> 0, end_loop |-> 0, length |-> 0,
     looping |-> FALSE, position_fp |-> 0]
NothingRead ==
    [result |-> "none", looping |-> FALSE, index1 |-> 0, index2 |-> 0]

\* Lfo::default
LfoDefault == [active |-> FALSE, delay |-> 0, period |-> 0, current_time |-> 0, value |-> 0]

EnvIdle ==
    /\ vol_env = DefaultVolEnv
    /\ mod_env = DefaultModEnv
    /\ envSel = "none"
    /\ envOp = "new"

ChanIdle ==
    /\ chan = DefaultChannel
    /\ chanOp = [kind |-> "none", number |-> 0, value |-> 0]
    /\ lastSel = "none"
    /\ msgCount = 0

PairIdle ==
    /\ pairX = "none"
    /\ pairOps = <<>>

LookIdle ==
    /\ presets = <<>>
    /\ preset_lookup = <<>>
    /\ default_preset = 1
    /\ lookPc = "none"
    /\ lookQuery = <<0, 0>>
    /\ lookResult = 0

SynIdle ==
    /\ channels = <<>>
    /\ voices = <<>>
    /\ active_voice_count = 0
    /\ block_size = 0
    /\ block_read = 0
    /\ synMsgs = 0
    /\ nextId = 0
    /\ pedalDown = <<>>
    /\ synOp = [op |-> "none", blocks |-> 0, note |-> "none"]

FpIdle ==
    /\ fpOsc = DefaultFpOscillator
    /\ fpRead = NothingRead
    /\ fpCalls = 0

RendIdle ==
    /\ rendSamples = 0
    /\ rendBlocks = 0

CutIdle ==
    /\ cutVoice = DefaultCutVoice
    /\ cutRegion = DefaultCutRegion
    /\ cutBlocks = 0
    /\ cutOp = "none"

GainIdle ==
    /\ gainVoice = DefaultGainVoice
    /\ gainChan = DefaultChannel
    /\ gainActive = FALSE
    /\ gainDone = 0
    /\ gainStarts = 0
    /\ gainMsgs = 0
    /\ gainOp = [op |-> "none", ok |-> FALSE]

LfoIdle ==
    /\ lfo = LfoDefault
    /\ lfoCalls = 0
    /\ lfoOut = 0

SelIdle ==
    /\ selChan = DefaultChannel
    /\ selBank = -1
    /\ selPatch = -1
    /\ selKey = -1
    /\ selMsgs = 0

SeqIdle ==
    /\ seqKind = "none"
    /\ seqFile = <<>>
    /\ midi_file = [some |-> FALSE, events |-> <<>>]
    /\ block_wrote = 0
    /\ seq_current_time = 0
    /\ msg_index = 0
    /\ dispatched = <<>>
    /\ rendered = 0
    /\ seqOps = [play |-> 0, stop |-> 0, render |-> 0]

MixIdle ==
    /\ mix = [previous_gain |-> 0, current_gain |-> 0, source |-> <<>>, destination |-> <<>>]
    /\ mixed = <<>>

SetIdle ==
    /\ settings = [sample_rate |-> 0, block_size |-> 0, maximum_polyphony |-> 0]
    /\ construction = "none"

(***************************************************************************)
(* SpecChan: one channel under controller, program change and pitch bend   *)
(* messages.                                                               *)
(***************************************************************************)
ChanControllers == {0, 1, 33, 6, 38, 7, 39, 10, 42, 11, 43, 64, 91, 93, 99, 98, 101, 100, 121}
ChanValues == {0, 127}
BendValues == {0, 16383}

\* a constructed channel, or one on which an RPN has already been selected
ChanInit ==
    /\ \/ chan = ChannelNew /\ lastSel = "none"
       \/ \E r \in {0, 1, 2} :
             /\ chan = set_rpn_fine(set_rpn_coarse(ChannelNew, 0), r)
             /\ lastSel = "rpn"
    /\ chanOp = [kind |-> "none", number |-> 0, value |-> 0]
    /\ msgCount = 0
    /\ EnvIdle
    /\ PairIdle
    /\ LookIdle
    /\ MidiIdle
    /\ SynIdle
    /\ SetIdle
    /\ MixIdle
    /\ SeqIdle
    /\ SelIdle
    /\ LfoIdle
    /\ GainIdle
    /\ CutIdle
    /\ RendIdle
    /\ FpIdle

SelectorAfter(controller, sel) ==
    IF controller \in {98, 99} THEN "nrpn"
    ELSE IF controller \in {100, 101} THEN "rpn"
    ELSE sel

ChanControllerMsg ==
    /\ msgCount < MaxMsgs
    /\ \E controller \in ChanControllers, value \in ChanValues :
          /\ chan' = ChannelController(chan, controller, value)
          /\ chanOp' = [kind |-> "controller", number |-> controller, value |-> value]
          /\ lastSel' = SelectorAfter(controller, lastSel)
    /\ msgCount' = msgCount + 1
    /\ UNCHANGED notChan

ChanProgramChange ==
    /\ msgCount < MaxMsgs
    /\ \E program \in ChanValues :
          /\ chan' = set_patch(chan, program)
          /\ chanOp' = [kind |-> "program", number |-> 0, value |-> program]
    /\ msgCount' = msgCount + 1
    /\ UNCHANGED <<lastSel, notChan>>

ChanPitchBend ==
    /\ msgCount < MaxMsgs
    /\ \E bend \in BendValues :
          /\ chan' = set_pitch_bend(chan, bend)
          /\ chanOp' = [kind |-> "bend", number |-> 0, value |-> bend]
    /\ msgCount' = msgCount + 1
    /\ UNCHANGED <<lastSel, notChan>>

ChanNext ==
    \/ ChanControllerMsg
    \/ ChanProgramChange
    \/ ChanPitchBend

(***************************************************************************)
(* SpecPair: the coarse and fine setters of one 14-bit controller pair,    *)
(* called in any order on a channel whose field holds any earlier value.   *)
(***************************************************************************)
Pairs == {"modulation", "volume", "pan", "expression", "rpn", "pitch_bend_range", "fine_tune"}
PairValues == {0, 1, 42, 63, 64, 85, 127}

Raw(ch, X) ==
    CASE X = "modulation" -> ch.modulation
      [] X = "volume" -> ch.volume
      [] X = "pan" -> ch.pan
      [] X = "expression" -> ch.expression
      [] X = "rpn" -> ch.rpn
      [] X = "pitch_bend_range" -> ch.pitch_bend_range
      [] X = "fine_tune" -> ch.fine_tune

CoarseSetter(ch, X, value) ==
    CASE X = "modulation" -> set_modulation_coarse(ch, value)
      [] X = "volume" -> set_volume_coarse(ch, value)
      [] X = "pan" -> set_pan_coarse(ch, value)
      [] X = "expression" -> set_expression_coarse(ch, value)
      [] X = "rpn" -> set_rpn_coarse(ch, value)
      [] X = "pitch_bend_range" -> set_pbr_coarse(ch, value)
      [] X = "fine_tune" -> set_fine_tune_coarse(ch, value)

FineSetter(ch, X, value) ==
    CASE X = "modulation" -> set_modulation_fine(ch, value)
      [] X = "volume" -> set_volume_fine(ch, value)
      [] X = "pan" -> set_pan_fine(ch, value)
      [] X = "expression" -> set_expression_fine(ch, value)
      [] X = "rpn" -> set_rpn_fine(ch, value)
      [] X = "pitch_bend_range" -> set_pbr_fine(ch, value)
      [] X = "fine_tune" -> set_fine_tune_fine(ch, value)

PairInit ==
    /\ pairX \in Pairs
    /\ chan = ChannelNew
    /\ pairOps = <<>>
    /\ chanOp = [kind |-> "none", number |-> 0, value |-> 0]
    /\ lastSel = "none"
    /\ msgCount = 0
    /\ EnvIdle
    /\ LookIdle
    /\ MidiIdle
    /\ SynIdle
    /\ SetIdle
    /\ MixIdle
    /\ SeqIdle
    /\ SelIdle
    /\ LfoIdle
    /\ GainIdle
    /\ CutIdle
    /\ RendIdle
    /\ FpIdle

PairCoarse ==
    /\ Len(pairOps) < MaxPairOps
    /\ \E c \in PairValues :
          /\ chan' = CoarseSetter(chan, pairX, c)
          /\ pairOps' = Append(pairOps, <<"coarse", c>>)
    /\ UNCHANGED <<pairX, notPair>>

PairFine ==
    /\ Len(pairOps) < MaxPairOps
    /\ \E f \in PairValues :
          /\ chan' = FineSetter(chan, pairX, f)
          /\ pairOps' = Append(pairOps, <<"fine", f>>)
    /\ UNCHANGED <<pairX, notPair>>

PairNext ==
    \/ PairCoarse
    \/ PairFine

(***************************************************************************)
(* SoundFontProc (rustysynth-soundfont/src/lib.rs): preset lookup.         *)
(* Indices into presets start at 1 here, at 0 in the code.                 *)
(***************************************************************************)
I32_MAX == 2147483647

\* (bank << 16) | patch
PresetId(bank, patch) == BitOr(bank * 65536, patch)

\* the loop of SoundFontProc::new from preset i on: the map and the default
RECURSIVE NewLoop(_, _, _, _, _)
NewLoop(ps, i, lookup, min_preset_id, default) ==
    IF i > Len(ps) THEN [preset_lookup |-> lookup, default_preset |-> default]
    ELSE LET preset_id == PresetId(ps[i].bank_number, ps[i].patch_number)
             inserted == (preset_id :> i) @@ lookup
         IN  IF preset_id < min_preset_id
             THEN NewLoop(ps, i + 1, inserted, preset_id, i)
             ELSE NewLoop(ps, i + 1, inserted, min_preset_id, default)

SoundFontProcNew(ps) == NewLoop(ps, 1, <<>>, I32_MAX, 1)

\* the GM fallback id with the drum test dropped (a bug)
GmPresetIdNoDrums(bank_id, patch_id) == patch_id

\* the id get_regions falls back to
GmPresetId(bank_id, patch_id) ==
    IF bank_id < 128 THEN patch_id ELSE 128 * 65536

\* the preset index get_regions resolves (bank_id, patch_id) to
ResolvePreset(lookup, default, bank_id, patch_id) ==
    LET preset_id == PresetId(bank_id, patch_id)
        gm_preset_id == GmPresetId(bank_id, patch_id)
    IN  IF preset_id \in DOMAIN lookup THEN lookup[preset_id]
        ELSE IF gm_preset_id \in DOMAIN lookup THEN lookup[gm_preset_id]
        ELSE default

PresetBanks == {0, 1, 128}
PresetPatches == {0, 17, 25}
QueryBanks == {0, 1, 128, 129}
PresetRecords == [bank_number : PresetBanks, patch_number : PresetPatches]

RECURSIVE SeqsUpTo(_, _)
SeqsUpTo(S, n) ==
    IF n = 0 THEN {<<>>}
    ELSE LET shorter == SeqsUpTo(S, n - 1)
         IN  shorter \cup {Append(q, x) : q \in shorter, x \in S}

LookInit ==
    /\ presets \in SeqsUpTo(PresetRecords, MaxPresets) \ {<<>>}
    /\ preset_lookup = <<>>
    /\ default_preset = 1
    /\ lookPc = "loaded"
    /\ lookQuery = <<0, 0>>
    /\ lookResult = 0
    /\ EnvIdle
    /\ ChanIdle
    /\ PairIdle
    /\ MidiIdle
    /\ SynIdle
    /\ SetIdle
    /\ MixIdle
    /\ SeqIdle
    /\ SelIdle
    /\ LfoIdle
    /\ GainIdle
    /\ CutIdle
    /\ RendIdle
    /\ FpIdle

LookNew ==
    /\ lookPc = "loaded"
    /\ LET proc == SoundFontProcNew(presets)
       IN  /\ preset_lookup' = proc.preset_lookup
           /\ default_preset' = proc.default_preset
    /\ lookPc' = "ready"
    /\ UNCHANGED <<presets, lookQuery, lookResult, notLook>>

LookGetRegions ==
    /\ lookPc = "ready"
    /\ \E bank_id \in QueryBanks, patch_id \in PresetPatches :
          /\ lookQuery' = <<bank_id, patch_id>>
          /\ lookResult' = ResolvePreset(preset_lookup, default_preset, bank_id, patch_id)
    /\ UNCHANGED <<presets, preset_lookup, default_preset, lookPc, notLook>>

LookNext ==
    \/ LookNew
    \/ LookGetRegions

(***************************************************************************)
(* SpecEnv: one envelope under any interleaving of start, render/process   *)
(* and release.                                                            *)
(***************************************************************************)
EnvTimes == {0, MaxEnvParam}
EnvSlopes == {1, MaxEnvParam}
EnvLevels == {0, 500}

EnvInit ==
    /\ vol_env = DefaultVolEnv
    /\ mod_env = DefaultModEnv
    /\ envSel \in {"vol", "mod"}
    /\ envOp = "new"
    /\ ChanIdle
    /\ PairIdle
    /\ LookIdle
    /\ MidiIdle
    /\ SynIdle
    /\ SetIdle
    /\ MixIdle
    /\ SeqIdle
    /\ SelIdle
    /\ LfoIdle
    /\ GainIdle
    /\ CutIdle
    /\ RendIdle
    /\ FpIdle

EnvVolStart ==
    /\ envSel = "vol"
    /\ \E delay \in EnvTimes, attack \in EnvTimes, hold \in EnvTimes,
          decay \in EnvSlopes, sustain \in EnvLevels, release \in EnvSlopes :
          vol_env' = VolStart(delay, attack, hold, decay, sustain, release)
    /\ envOp' = "start"
    /\ UNCHANGED <<mod_env, envSel, notEnv>>

EnvVolRender ==
    /\ envSel = "vol"
    /\ vol_env.current_time < MaxEnvTime
    /\ vol_env' = VolRender(vol_env)
    /\ envOp' = "render"
    /\ UNCHANGED <<mod_env, envSel, notEnv>>

EnvVolRelease ==
    /\ envSel = "vol"
    /\ vol_env' = VolRelease(vol_env)
    /\ envOp' = "release"
    /\ UNCHANGED <<mod_env, envSel, notEnv>>

EnvModStart ==
    /\ envSel = "mod"
    /\ \E delay \in EnvTimes, attack \in EnvTimes, hold \in EnvTimes,
          decay \in EnvSlopes, sustain \in EnvLevels, release \in EnvSlopes :
          mod_env' = ModStart(delay, attack, hold, decay, sustain, release)
    /\ envOp' = "start"
    /\ UNCHANGED <<vol_env, envSel, notEnv>>

EnvModProcess ==
    /\ envSel = "mod"
    /\ \E sample_count \in 0..2 :
          /\ mod_env.processed_sample_count + sample_count <= MaxEnvTime
          /\ mod_env' = ModProcess(mod_env, sample_count)
    /\ envOp' = "render"
    /\ UNCHANGED <<vol_env, envSel, notEnv>>

EnvModRelease ==
    /\ envSel = "mod"
    /\ mod_env.release_end_time <= MaxEnvTime
    /\ mod_env' = ModRelease(mod_env)
    /\ envOp' = "release"
    /\ UNCHANGED <<vol_env, envSel, notEnv>>

EnvNext ==
    \/ EnvVolStart
    \/ EnvVolRender
    \/ EnvVolRelease
    \/ EnvModStart
    \/ EnvModProcess
    \/ EnvModRelease

SpecEnv == EnvInit /\ [][EnvNext]_vars

(***************************************************************************)
(* SpecMidi: MidiFile::new on a two-track file, track by track and then    *)
(* merge step by merge step.                                               *)
(***************************************************************************)
MidiInit ==
    /\ \E track0 \in SeqsUpTo(Track0Events, MaxTrackLen) \ {<<>>},
          track1 \in SeqsUpTo(Track1Events, MaxTrackLen) \ {<<>>} :
          smf = [ticks_per_beat |-> 480, tracks |-> <<track0, track1>>]
    /\ midiPc = "parse"
    /\ tempo_changes = <<>>
    /\ all_evts = <<>>
    /\ events = <<>>
    /\ EnvIdle
    /\ ChanIdle
    /\ PairIdle
    /\ LookIdle
    /\ SynIdle
    /\ SetIdle
    /\ MixIdle
    /\ SeqIdle
    /\ SelIdle
    /\ LfoIdle
    /\ GainIdle
    /\ CutIdle
    /\ RendIdle
    /\ FpIdle

\* one pass of `for track in smf.tracks`
MidiParseTrack ==
    /\ midiPc = "parse"
    /\ LET t == Len(all_evts) + 1
           parsed == ParseTrack(smf, t, tempo_changes)
       IN  /\ tempo_changes' = parsed.tempo_changes
           /\ all_evts' = Append(all_evts, parsed.track_evts)
           /\ midiPc' = IF t = Len(smf.tracks) THEN "merge" ELSE "parse"
    /\ UNCHANGED <<smf, events, notMidi>>

\* one pass of the merge loop
MidiMergeStep ==
    /\ midiPc = "merge"
    /\ \E i \in DOMAIN all_evts : all_evts[i] # <<>>
    /\ LET which == EarliestTrack(all_evts)
       IN  /\ events' = Append(events, Head(all_evts[which]))
           /\ all_evts' = [all_evts EXCEPT ![which] = Tail(@)]
    /\ UNCHANGED <<smf, midiPc, tempo_changes, notMidi>>

\* the merge loop ends: Ok(Self { events })
MidiDone ==
    /\ midiPc = "merge"
    /\ \A i \in DOMAIN all_evts : all_evts[i] = <<>>
    /\ midiPc' = "done"
    /\ UNCHANGED <<smf, tempo_changes, all_evts, events, notMidi>>

MidiNext ==
    \/ MidiParseTrack
    \/ MidiMergeStep
    \/ MidiDone

SpecMidi == MidiInit /\ [][MidiNext]_vars

(***************************************************************************)
(* Spec: the synthesizer under note, controller, reset and render calls.   *)
(***************************************************************************)
SynChannels == {0, 1}
SynKeys == {60, 61, MissKey}
SynVelocities == {0, 100}
SynControllers == {64, 120, 121, 123}
SynValues == {0, 127}
SynBlockSizes == {BLOCK_SIZE, 4 * BLOCK_SIZE}

\* enough messages to fill the pool and start one voice more
MaxSynMsgs == Capacity + 1

SynInit ==
    /\ channels = [c \in ChannelNumbers |-> ChannelNew]
    /\ voices = [i \in 1..Capacity |-> DefaultVoice]
    /\ active_voice_count = 0
    /\ block_size \in SynBlockSizes
    /\ block_read = block_size
    /\ synMsgs = 0
    /\ nextId = 1
    /\ pedalDown = [c \in ChannelNumbers |-> FALSE]
    /\ synOp = [op |-> "new", blocks |-> 0, note |-> "none"]
    /\ EnvIdle
    /\ ChanIdle
    /\ PairIdle
    /\ LookIdle
    /\ MidiIdle
    /\ SetIdle
    /\ MixIdle
    /\ SeqIdle
    /\ SelIdle
    /\ LfoIdle
    /\ GainIdle
    /\ CutIdle
    /\ RendIdle
    /\ FpIdle

\* note_on with a velocity above 0 that starts a voice whether or not a
\* region was found (a bug)
StartNoteWithoutRegion(channel, key, velocity) ==
    LET found == GetRegions(key, velocity)
        got == RequestNew(voices, active_voice_count)
    IN  /\ voices' = [voices EXCEPT ![got.slot] =
                         VoiceStart(@, found.region, channel, key, velocity, nextId)]
        /\ active_voice_count' = got.count
        /\ nextId' = nextId + 1

\* note_on with a velocity above 0
StartNote(channel, key, velocity) ==
    LET found == GetRegions(key, velocity)
        got == RequestNew(voices, active_voice_count)
    IN  IF found.ok
        THEN /\ voices' = [voices EXCEPT ![got.slot] =
                              VoiceStart(@, found.region, channel, key, velocity, nextId)]
             /\ active_voice_count' = got.count
             /\ nextId' = nextId + 1
        ELSE UNCHANGED <<voices, active_voice_count, nextId>>

\* what a note_on call did: ended notes (velocity 0), found no region, took a
\* free slot or took the slot of an active voice
NoteOutcome(key, velocity) ==
    IF velocity = 0 THEN "off"
    ELSE IF ~GetRegions(key, velocity).ok THEN "miss"
    ELSE IF active_voice_count < Len(voices) THEN "started"
    ELSE "stolen"

\* note_on(channel, key, velocity)
NoteOn(channel, key, velocity) ==
    /\ IF velocity = 0
       THEN /\ voices' = NoteOffVoices(voices, active_voice_count, channel, key)
            /\ UNCHANGED <<active_voice_count, nextId>>
       ELSE StartNote(channel, key, velocity)
    /\ synOp' = [op |-> "note_on", blocks |-> 0, note |-> NoteOutcome(key, velocity)]
    /\ synMsgs' = synMsgs + 1
    /\ UNCHANGED <<channels, block_size, block_read, pedalDown, notSyn>>

SynNoteOn ==
    /\ synMsgs < MaxSynMsgs
    /\ \E channel \in SynChannels, key \in SynKeys, velocity \in SynVelocities :
          NoteOn(channel, key, velocity)

SynNoteOff ==
    /\ synMsgs < MaxSynMsgs
    /\ \E channel \in SynChannels, key \in SynKeys :
          voices' = NoteOffVoices(voices, active_voice_count, channel, key)
    /\ synOp' = [op |-> "message", blocks |-> 0, note |-> "none"]
    /\ synMsgs' = synMsgs + 1
    /\ UNCHANGED <<channels, active_voice_count, block_size, block_read, nextId, pedalDown, notSyn>>

\* process_midi_message(channel, Controller { controller, value })
Controller(channel, controller, value) ==
    /\ voices' = IF controller = 120
                 THEN NoteOffAllChannelVoices(voices, active_voice_count, channel, TRUE)
                 ELSE IF controller = 123
                 THEN NoteOffAllChannelVoices(voices, active_voice_count, channel, FALSE)
                 ELSE voices
    /\ channels' = [channels EXCEPT ![channel] = ChannelController(@, controller, value)]
    /\ pedalDown' = IF controller = 64
                    THEN [pedalDown EXCEPT ![channel] = (value >= 64)]
                    ELSE IF controller = 121
                    THEN [pedalDown EXCEPT ![channel] = FALSE]
                    ELSE pedalDown
    /\ synOp' = [op |-> "message", blocks |-> 0, note |-> "none"]
    /\ synMsgs' = synMsgs + 1
    /\ UNCHANGED <<active_voice_count, block_size, block_read, nextId, notSyn>>

SynController ==
    /\ synMsgs < MaxSynMsgs
    /\ \E channel \in SynChannels, controller \in SynControllers, value \in SynValues :
          Controller(channel, controller, value)

\* note_off_all(immediate)
NoteOffAll(immediate) ==
    /\ IF immediate
       THEN /\ active_voice_count' = 0
            /\ UNCHANGED voices
       ELSE /\ voices' = EndAllVoices(voices, active_voice_count)
            /\ UNCHANGED active_voice_count
    /\ synOp' = [op |-> "message", blocks |-> 0, note |-> "none"]
    /\ synMsgs' = synMsgs + 1
    /\ UNCHANGED <<channels, block_size, block_read, nextId, pedalDown, notSyn>>

SynNoteOffAll ==
    /\ synMsgs < MaxSynMsgs
    /\ \E immediate \in BOOLEAN : NoteOffAll(immediate)

SynResetAllControllers ==
    /\ synMsgs < MaxSynMsgs
    /\ channels' = [c \in ChannelNumbers |-> ChannelResetAllControllers(channels[c])]
    /\ pedalDown' = [c \in ChannelNumbers |-> FALSE]
    /\ synOp' = [op |-> "message", blocks |-> 0, note |-> "none"]
    /\ synMsgs' = synMsgs + 1
    /\ UNCHANGED <<voices, active_voice_count, block_size, block_read, nextId, notSyn>>

SynReset ==
    /\ synMsgs < MaxSynMsgs
    /\ active_voice_count' = 0
    /\ channels' = [c \in ChannelNumbers |-> ChannelReset(channels[c])]
    /\ block_read' = block_size
    /\ pedalDown' = [c \in ChannelNumbers |-> FALSE]
    /\ synOp' = [op |-> "reset", blocks |-> 0, note |-> "none"]
    /\ synMsgs' = synMsgs + 1
    /\ UNCHANGED <<voices, block_size, nextId, notSyn>>

SynRender ==
    /\ \A i \in 1..active_voice_count : voices[i].voice_length < MaxVoiceBlocks * block_size
    /\ \E length \in {block_size \div 2, block_size} :
          LET r == RenderLoop(voices, active_voice_count, channels, block_read, 0, length, 0)
          IN  /\ voices' = r.voices
              /\ active_voice_count' = r.count
              /\ block_read' = r.block_read
              /\ synOp' = [op |-> "render", blocks |-> r.blocks, note |-> "none"]
    /\ UNCHANGED <<channels, block_size, synMsgs, nextId, pedalDown, notSyn>>

SynNext ==
    \/ SynNoteOn
    \/ SynNoteOff
    \/ SynController
    \/ SynNoteOffAll
    \/ SynResetAllControllers
    \/ SynReset
    \/ SynRender

Spec == SynInit /\ [][SynNext]_vars

\* C1: the number of active voices is between 0 and the capacity of the pool
C1_ActiveCountInRange ==
    active_voice_count >= 0 /\ active_voice_count <= Len(voices)

\* a note_on found the pool full and took a slot from an active voice
\* with no block rendered since the active voices started, a later voice sits
\* in front of an earlier one
C1_Witness ==
    /\ synOp.op = "note_on"
    /\ active_voice_count = Len(voices)
    /\ \A i \in 1..active_voice_count : voices[i].voice_length = 0
    /\ \E i, j \in 1..active_voice_count : i < j /\ voices[i].id > voices[j].id

(***************************************************************************)
(* SpecSteal: note_on calls for distinct keys, one after the other with no *)
(* block rendered, on a synthesizer of the smallest polyphony the settings *)
(* accept.                                                                 *)
(***************************************************************************)
StealPolyphony == 8

\* two note_ons more than there are slots
StealNotes == StealPolyphony + 2

\* the key of the n-th note_on
StealKey(n) == 59 + n

StealInit ==
    /\ channels = [c \in ChannelNumbers |-> ChannelNew]
    /\ voices = [i \in 1..StealPolyphony |-> DefaultVoice]
    /\ active_voice_count = 0
    /\ block_size \in SynBlockSizes
    /\ block_read = block_size
    /\ synMsgs = 0
    /\ nextId = 1
    /\ pedalDown = [c \in ChannelNumbers |-> FALSE]
    /\ synOp = [op |-> "new", blocks |-> 0, note |-> "none"]
    /\ EnvIdle
    /\ ChanIdle
    /\ PairIdle
    /\ LookIdle
    /\ MidiIdle
    /\ SetIdle
    /\ MixIdle
    /\ SeqIdle
    /\ SelIdle
    /\ LfoIdle
    /\ GainIdle
    /\ CutIdle
    /\ RendIdle
    /\ FpIdle

StealNoteOn ==
    /\ synMsgs < StealNotes
    /\ \E channel \in SynChannels : NoteOn(channel, StealKey(synMsgs + 1), 100)

StealNext == StealNoteOn

SpecSteal == StealInit /\ [][StealNext]_vars

ActiveIds == {voices[i].id : i \in 1..active_voice_count}

\* C2: after StealNotes note_ons into StealPolyphony slots with no block
\* rendered, StealPolyphony voices are active, those of the first and second
\* note_on are gone and those of the last two note_ons are present
C2_TwoEarliestDropped ==
    (synMsgs = StealNotes) =>
        /\ active_voice_count = StealPolyphony
        /\ 1 \notin ActiveIds
        /\ 2 \notin ActiveIds
        /\ (StealNotes - 1) \in ActiveIds
        /\ StealNotes \in ActiveIds

\* a voice that is Released, or has its envelope or oscillator released, after
\* the step and was not before it
BecomesReleased(before, after) ==
    \/ after.voice_state = Released /\ before.voice_state # Released
    \/ after.vol_env.stage = RELEASE /\ before.vol_env.stage # RELEASE

Inaudible(voice) ==
    \/ voice.note_gain < NON_AUDIBLE
    \/ voice.vol_env.stage \in {DECAY, RELEASE} /\ voice.vol_env.value <= NON_AUDIBLE

\* C4: a rendered block leaves no voice active that was inaudible before it
\* (note_gain 0, or an envelope value of NON_AUDIBLE or less in DECAY or
\* RELEASE) or that is inaudible after it
C4_InaudibleRemoved ==
    [][(synOp'.op = "render" /\ synOp'.blocks > 0) =>
          /\ \A i \in 1..active_voice_count :
                Inaudible(voices[i]) =>
                    \A j \in 1..active_voice_count' : voices'[j].id # voices[i].id
          /\ \A j \in 1..active_voice_count' : ~Inaudible(voices'[j])]_vars

\* a rendered block left a free slot holding a voice whose envelope ran out
\* in RELEASE
C4_Witness ==
    /\ synOp.op = "render"
    /\ synOp.blocks > 0
    /\ \E j \in (active_voice_count + 1)..Len(voices) :
          /\ voices[j].id # 0
          /\ voices[j].note_gain >= NON_AUDIBLE
          /\ voices[j].vol_env.stage = RELEASE
          /\ voices[j].vol_env.value <= NON_AUDIBLE

(***************************************************************************)
(* SpecChannels: messages addressed to any channel number a u4 can hold.   *)
(***************************************************************************)
U4_MAX == 15

U4 == 0..U4_MAX

\* indexing self.channels with a number it has no element for panics
IndexPanic ==
    /\ synOp' = [op |-> "panic", blocks |-> 0, note |-> "none"]
    /\ synMsgs' = synMsgs + 1
    /\ UNCHANGED <<channels, voices, active_voice_count, block_size, block_read,
                   nextId, pedalDown, notSyn>>

AddrInit ==
    /\ channels = [c \in ChannelNumbers |-> ChannelNew]
    /\ voices = [i \in 1..Capacity |-> DefaultVoice]
    /\ active_voice_count = 0
    /\ block_size \in SynBlockSizes
    /\ block_read = block_size
    /\ synMsgs = 0
    /\ nextId = 1
    /\ pedalDown = [c \in ChannelNumbers |-> FALSE]
    /\ synOp = [op |-> "new", blocks |-> 0, note |-> "none"]
    /\ EnvIdle
    /\ ChanIdle
    /\ PairIdle
    /\ LookIdle
    /\ MidiIdle
    /\ SetIdle
    /\ MixIdle
    /\ SeqIdle
    /\ SelIdle
    /\ LfoIdle
    /\ GainIdle
    /\ CutIdle
    /\ RendIdle
    /\ FpIdle

\* process_midi_message with a Controller message on any channel
AddrController ==
    /\ synMsgs < MaxSynMsgs
    /\ synOp.op # "panic"
    /\ \E channel \in U4, controller \in {64, 121}, value \in SynValues :
          IF channel \in DOMAIN channels
          THEN Controller(channel, controller, value)
          ELSE IndexPanic

\* process_midi_message with a NoteOn message on any channel
AddrNoteOn ==
    /\ synMsgs < MaxSynMsgs
    /\ synOp.op # "panic"
    /\ \E channel \in U4 :
          IF channel \in DOMAIN channels
          THEN NoteOn(channel, 60, 100)
          ELSE IndexPanic

AddrNext ==
    \/ AddrController
    \/ AddrNoteOn

SpecChannels == AddrInit /\ [][AddrNext]_vars

\* C12: a message on any channel number 0..15 is processed without an
\* out-of-range access to the channels of the synthesizer
C12_EveryChannelAddressable == synOp.op # "panic"

(***************************************************************************)
(* SynthesizerSettings::validate (synthesizer_settings.rs) and SpecSettings:*)
(* Synthesizer::new on settings at and around the limits.                  *)
(***************************************************************************)
check_sample_rate(value) ==
    IF ~(value >= 16000 /\ value <= 192000) THEN "SampleRateOutOfRange" ELSE "Ok"

\* check_block_size with the upper limit excluded (a bug)
CheckBlockSizeExclusive(value) ==
    IF ~(value >= 8 /\ value < 1024) THEN "BlockSizeOutOfRange" ELSE "Ok"

check_block_size(value) ==
    IF ~(value >= 8 /\ value <= 1024) THEN "BlockSizeOutOfRange" ELSE "Ok"

check_maximum_polyphony(value) ==
    IF ~(value >= 8 /\ value <= 256) THEN "MaximumPolyphonyOutOfRange" ELSE "Ok"

\* validate: Ok, or the error of the first check that fails
validate(s) ==
    IF check_sample_rate(s.sample_rate) # "Ok" THEN check_sample_rate(s.sample_rate)
    ELSE IF check_block_size(s.block_size) # "Ok" THEN check_block_size(s.block_size)
    ELSE check_maximum_polyphony(s.maximum_polyphony)

\* Synthesizer::new: Ok for a constructed synthesizer, else the error
SynthesizerNew(s) == validate(s)

SettingSampleRates == {-1, 15999, 16000, SAMPLE_RATE, 192000, 192001}
SettingBlockSizes == {0, 7, 8, BLOCK_SIZE, 1024, 1025}
SettingPolyphonies == {0, 7, 8, 64, 256, 257}

SetInit ==
    /\ settings \in [sample_rate : SettingSampleRates, block_size : SettingBlockSizes,
                      maximum_polyphony : SettingPolyphonies]
    /\ construction = "none"
    /\ EnvIdle
    /\ ChanIdle
    /\ PairIdle
    /\ LookIdle
    /\ MidiIdle
    /\ SynIdle
    /\ MixIdle
    /\ SeqIdle
    /\ SelIdle
    /\ LfoIdle
    /\ GainIdle
    /\ CutIdle
    /\ RendIdle
    /\ FpIdle

SetNew ==
    /\ construction = "none"
    /\ construction' = SynthesizerNew(settings)
    /\ UNCHANGED <<settings, notSet>>

SetNext == SetNew

SpecSettings == SetInit /\ [][SetNext]_vars

\* C13: construction fails with a settings error exactly when sample_rate is
\* outside 16000..192000, block_size outside 8..1024 or maximum_polyphony
\* outside 8..256
C13_SettingsRanges ==
    (construction # "none") =>
        ((construction # "Ok") <=>
            \/ settings.sample_rate \notin 16000..192000
            \/ settings.block_size \notin 8..1024
            \/ settings.maximum_polyphony \notin 8..256)

\* a synthesizer was constructed with every setting at its upper limit
C13_Witness ==
    /\ construction = "Ok"
    /\ settings.sample_rate = 192000
    /\ settings.block_size = 1024
    /\ settings.maximum_polyphony = 256

(***************************************************************************)
(* write_block (synthesizer.rs) and SpecMix: one call of it.  A gain is a   *)
(* whole number of 1/MixScale; a destination sample is a whole number of   *)
(* 1/(MixScale * N) for the N samples of the block, so that the step       *)
(* inverse_block_size * (current_gain - previous_gain) is whole.           *)
(***************************************************************************)
MixScale == 10 * VScale

MixNonAudible == (NON_AUDIBLE * MixScale) \div VScale

\* 1.0E-3
MixThreshold == MixScale \div 1000

Abs(x) == IF x < 0 THEN -x ELSE x

\* ArrayMath::multiply_add(a, x, dst): dst[i] += a * x[i]
multiply_add(a, x, dst) ==
    [i \in DOMAIN dst |-> dst[i] + a * Len(dst) * x[i]]

\* ArrayMath::multiply_add_slope(a, step, x, dst) from sample i on:
\* dst[i] += a * x[i]; a += step
RECURSIVE multiply_add_slope(_, _, _, _, _)
multiply_add_slope(a, step, x, dst, i) ==
    IF i > Len(dst) THEN dst
    ELSE multiply_add_slope(a + step, step, x, [dst EXCEPT ![i] = @ + a * x[i]], i + 1)

\* write_block with the previous gain in the constant case (a bug)
WriteBlockPreviousGain(previous_gain, current_gain, source, destination) ==
    IF Max(previous_gain, current_gain) < MixNonAudible THEN destination
    ELSE IF Abs(current_gain - previous_gain) < MixThreshold
    THEN multiply_add(previous_gain, source, destination)
    ELSE LET step == current_gain - previous_gain
         IN  multiply_add_slope(previous_gain * Len(destination), step, source, destination, 1)

write_block(previous_gain, current_gain, source, destination) ==
    IF Max(previous_gain, current_gain) < MixNonAudible THEN destination
    ELSE IF Abs(current_gain - previous_gain) < MixThreshold
    THEN multiply_add(current_gain, source, destination)
    ELSE LET step == current_gain - previous_gain
         IN  multiply_add_slope(previous_gain * Len(destination), step, source, destination, 1)

MixGains == {0, MixNonAudible - 1, MixNonAudible, MixScale \div 2,
             MixScale \div 2 + MixThreshold - 1, MixScale \div 2 + MixThreshold, MixScale}
MixSamples == {-1, 0, 2}

MixInit ==
    /\ \E n \in 1..MaxMixLen :
          mix \in [previous_gain : MixGains, current_gain : MixGains,
                   source : [1..n -> MixSamples], destination : [1..n -> {0}]]
    /\ mixed = <<>>
    /\ EnvIdle
    /\ ChanIdle
    /\ PairIdle
    /\ LookIdle
    /\ MidiIdle
    /\ SynIdle
    /\ SetIdle
    /\ SeqIdle
    /\ SelIdle
    /\ LfoIdle
    /\ GainIdle
    /\ CutIdle
    /\ RendIdle
    /\ FpIdle

MixWriteBlock ==
    /\ mixed = <<>>
    /\ mixed' = write_block(mix.previous_gain, mix.current_gain, mix.source, mix.destination)
    /\ UNCHANGED <<mix, notMix>>

MixNext == MixWriteBlock

SpecMix == MixInit /\ [][MixNext]_vars

\* the gain the i-th sample of a block of n is to be scaled by, times n
ExpectedGain(p, c, i, n) ==
    IF Abs(c - p) < MixThreshold THEN c * n ELSE p * n + (c - p) * (i - 1)

\* C14: when the larger of the previous gain p and the current gain c is
\* audible, write_block adds to each sample of the destination the source
\* sample scaled by c if |c - p| < 1e-3 and else, for the i-th of N samples
\* counted from 0, by p + (c - p) * i / N
C14_GainRamp ==
    (mixed # <<>> /\ Max(mix.previous_gain, mix.current_gain) >= MixNonAudible) =>
        \A i \in DOMAIN mixed :
            mixed[i] - mix.destination[i]
                = mix.source[i] * ExpectedGain(mix.previous_gain, mix.current_gain,
                                               i, Len(mixed))

\* a block of more than one sample was mixed with a ramp between two gains
C14_Witness ==
    /\ mixed # <<>>
    /\ Len(mixed) > 1
    /\ Abs(mix.current_gain - mix.previous_gain) >= MixThreshold
    /\ Max(mix.previous_gain, mix.current_gain) >= MixNonAudible
    /\ \A i \in DOMAIN mixed : mix.source[i] # 0

(***************************************************************************)
(* MidiFileSequencer (rustysynth-midi/src/midifile_sequencer.rs, kind      *)
(* "midi", and rustysynth/src/midifile_sequencer.rs, kind "core").  Times  *)
(* are whole samples at SAMPLE_RATE, so a block lasts block_size.  A       *)
(* MidiEvent is [time, ch, controller, value], a Controller message.  The  *)
(* loops work on a record q of the fields they change.                     *)
(***************************************************************************)
\* process_events: the while loop
RECURSIVE ProcessEventsLoop(_, _)
ProcessEventsLoop(q, evts) ==
    IF q.msg_index < Len(evts) /\ evts[q.msg_index + 1].time <= q.current_time
    THEN LET evt == evts[q.msg_index + 1]
         IN  ProcessEventsLoop(
                 [q EXCEPT !.channels = [@ EXCEPT ![evt.ch] =
                                            ChannelController(@, evt.controller, evt.value)],
                           !.msg_index = @ + 1,
                           !.dispatched = Append(@, [index |-> q.msg_index + 1,
                                                     at |-> q.current_time,
                                                     block_read |-> q.block_read,
                                                     rendered |-> q.rendered])],
                 evts)
    ELSE q

\* process_events with an if in place of the while: one event per block
ProcessEventsOnce(q, kind, file) ==
    IF kind = "core" /\ ~file.some THEN q
    ELSE IF q.msg_index < Len(file.events)
            /\ file.events[q.msg_index + 1].time <= q.current_time
         THEN LET evt == file.events[q.msg_index + 1]
              IN  [q EXCEPT !.channels = [@ EXCEPT ![evt.ch] =
                                             ChannelController(@, evt.controller, evt.value)],
                            !.msg_index = @ + 1,
                            !.dispatched = Append(@, [index |-> q.msg_index + 1,
                                                      at |-> q.current_time,
                                                      block_read |-> q.block_read,
                                                      rendered |-> q.rendered])]
         ELSE q

\* process_events; the sequencer of rustysynth returns at once without a file
ProcessEvents(q, kind, file) ==
    IF kind = "core" /\ ~file.some THEN q ELSE ProcessEventsLoop(q, file.events)

\* the head of a pass of the loop of render: at a block boundary of the
\* sequencer the due events are dispatched and the clock moves on
SeqBoundary(q, kind, file) ==
    IF q.block_wrote = block_size
    THEN [ProcessEvents(q, kind, file) EXCEPT !.block_wrote = 0,
                                              !.current_time = @ + block_size]
    ELSE q

\* the rest of the pass: the synthesizer renders rem samples
SeqChunk(q, rem) ==
    LET r == RenderLoop(q.voices, q.count, q.channels, q.block_read, 0, rem, 0)
    IN  [q EXCEPT !.voices = r.voices,
                  !.count = r.count,
                  !.block_read = r.block_read,
                  !.rendered = @ + r.blocks,
                  !.block_wrote = @ + rem]

\* the while loop of MidiFileSequencer::render for a buffer of length samples;
\* each pass works on the value the pass before left
RECURSIVE SeqRenderLoop(_, _, _, _, _)
SeqRenderLoop(q, kind, file, wrote, length) ==
    IF wrote >= length THEN q
    ELSE CHOOSE out \in
            {SeqRenderLoop(SeqChunk(q1, Min(block_size - q1.block_wrote, length - wrote)),
                           kind, file,
                           wrote + Min(block_size - q1.block_wrote, length - wrote), length) :
                q1 \in {SeqBoundary(q0, kind, file) : q0 \in {q}}} : TRUE

(***************************************************************************)
(* SpecSeq: one sequencer under play, stop and render calls with buffers   *)
(* of less than, exactly and more than a block.                            *)
(***************************************************************************)
SeqTimes == {0, 40, BLOCK_SIZE, 100}
SeqLengths == {BLOCK_SIZE \div 2, BLOCK_SIZE, BLOCK_SIZE + BLOCK_SIZE \div 2}

\* the n-th event of a file: volume (controller 7) of channel 0 set to n
SeqEvent(n, time) == [time |-> time, ch |-> 0, controller |-> 7, value |-> n]

\* files of one or two events in time order
SeqFiles ==
    {<<SeqEvent(1, t)>> : t \in SeqTimes}
    \cup {<<SeqEvent(1, t[1]), SeqEvent(2, t[2])>> :
              t \in {u \in SeqTimes \X SeqTimes : u[1] <= u[2]}}

SeqOpCount == seqOps.play + seqOps.stop + seqOps.render

\* the state new leaves: the sequencer of rustysynth-midi resets the
\* synthesizer and holds the file; that of rustysynth waits for play
SeqInit ==
    /\ seqKind \in {"midi", "core"}
    /\ seqFile \in SeqFiles
    /\ midi_file = IF seqKind = "midi" THEN [some |-> TRUE, events |-> seqFile]
                   ELSE [some |-> FALSE, events |-> <<>>]
    /\ block_wrote = IF seqKind = "midi" THEN BLOCK_SIZE ELSE 0
    /\ seq_current_time = 0
    /\ msg_index = 0
    /\ dispatched = <<>>
    /\ rendered = 0
    /\ seqOps = [play |-> 0, stop |-> 0, render |-> 0]
    /\ channels = [c \in ChannelNumbers |-> ChannelNew]
    /\ voices = [i \in 1..Capacity |-> DefaultVoice]
    /\ active_voice_count = 0
    /\ block_size = BLOCK_SIZE
    /\ block_read = BLOCK_SIZE
    /\ synMsgs = 0
    /\ nextId = 1
    /\ pedalDown = [c \in ChannelNumbers |-> FALSE]
    /\ synOp = [op |-> "new", blocks |-> 0, note |-> "none"]
    /\ EnvIdle
    /\ ChanIdle
    /\ PairIdle
    /\ LookIdle
    /\ MidiIdle
    /\ SetIdle
    /\ MixIdle
    /\ SelIdle
    /\ LfoIdle
    /\ GainIdle
    /\ CutIdle
    /\ RendIdle
    /\ FpIdle

\* Synthesizer::reset as the sequencer calls it
SeqSynthReset ==
    /\ active_voice_count' = 0
    /\ channels' = [c \in ChannelNumbers |-> ChannelReset(channels[c])]
    /\ block_read' = block_size
    /\ rendered' = 0
    /\ UNCHANGED <<voices, block_size, synMsgs, nextId, pedalDown, synOp>>

\* play(midi_file) of the sequencer of rustysynth
SeqPlay ==
    /\ seqKind = "core"
    /\ SeqOpCount < MaxSeqOps
    /\ midi_file' = [some |-> TRUE, events |-> seqFile]
    /\ block_wrote' = block_size
    /\ seq_current_time' = 0
    /\ msg_index' = 0
    /\ SeqSynthReset
    /\ seqOps' = [seqOps EXCEPT !.play = @ + 1]
    /\ UNCHANGED <<seqKind, seqFile, dispatched,
                   envVars, chanVars, pairVars, lookVars, midiVars, setVars, mixVars, selVars, lfoVars, gainVars, cutVars, rendVars, fpVars>>

SeqStop ==
    /\ SeqOpCount < MaxSeqOps
    /\ midi_file' = IF seqKind = "core" THEN [some |-> FALSE, events |-> <<>>] ELSE midi_file
    /\ SeqSynthReset
    /\ seqOps' = [seqOps EXCEPT !.stop = @ + 1]
    /\ UNCHANGED <<seqKind, seqFile, block_wrote, seq_current_time, msg_index, dispatched,
                   envVars, chanVars, pairVars, lookVars, midiVars, setVars, mixVars, selVars, lfoVars, gainVars, cutVars, rendVars, fpVars>>

SeqRender ==
    /\ SeqOpCount < MaxSeqOps
    /\ \E length \in SeqLengths :
          \E q \in {SeqRenderLoop([block_wrote |-> block_wrote,
                                   current_time |-> seq_current_time,
                                   msg_index |-> msg_index,
                                   dispatched |-> dispatched,
                                   rendered |-> rendered,
                                   channels |-> channels,
                                   voices |-> voices,
                                   count |-> active_voice_count,
                                   block_read |-> block_read],
                                  seqKind, midi_file, 0, length)} :
              /\ block_wrote' = q.block_wrote
              /\ seq_current_time' = q.current_time
              /\ msg_index' = q.msg_index
              /\ dispatched' = q.dispatched
              /\ rendered' = q.rendered
              /\ channels' = q.channels
              /\ voices' = q.voices
              /\ active_voice_count' = q.count
              /\ block_read' = q.block_read
    /\ seqOps' = [seqOps EXCEPT !.render = @ + 1]
    /\ UNCHANGED <<seqKind, seqFile, midi_file, block_size, synMsgs, nextId, pedalDown, synOp,
                   envVars, chanVars, pairVars, lookVars, midiVars, setVars, mixVars, selVars, lfoVars, gainVars, cutVars, rendVars, fpVars>>

SeqNext ==
    \/ SeqPlay
    \/ SeqStop
    \/ SeqRender

SpecSeq == SeqInit /\ [][SeqNext]_vars

(***************************************************************************)
(* SpecSelect: bank select (controller 0), program change and the preset   *)
(* lookup of note_on on one channel.                                       *)
(***************************************************************************)
SelValues == {0, 1, 64, 127}

\* Channel::get_bank_number: preset_id >> 16
get_bank_number(ch) == ch.preset_id \div 65536

\* Channel::get_patch_number: preset_id & 0xFFFF
get_patch_number(ch) == BitAnd(Bits16(ch.preset_id), 65535)

\* the preset id get_regions computes for a note_on on the channel
LookupKey(ch) == PresetId(get_bank_number(ch), get_patch_number(ch))

SelInit ==
    /\ selChan = ChannelNew
    /\ selBank = -1
    /\ selPatch = -1
    /\ selKey = -1
    /\ selMsgs = 0
    /\ EnvIdle
    /\ ChanIdle
    /\ PairIdle
    /\ LookIdle
    /\ MidiIdle
    /\ SynIdle
    /\ SetIdle
    /\ MixIdle
    /\ SeqIdle
    /\ LfoIdle
    /\ GainIdle
    /\ CutIdle
    /\ RendIdle
    /\ FpIdle

\* process_midi_message(channel, Controller { controller: 0, value })
SelBankSelect ==
    /\ selMsgs < MaxMsgs + 1
    /\ \E value \in SelValues :
          /\ selChan' = ChannelController(selChan, 0, value)
          /\ selBank' = value
    /\ selKey' = -1
    /\ selMsgs' = selMsgs + 1
    /\ UNCHANGED <<selPatch, notSel>>

\* process_midi_message(channel, ProgramChange { program })
SelProgramChange ==
    /\ selMsgs < MaxMsgs + 1
    /\ \E program \in SelValues :
          /\ selChan' = set_patch(selChan, program)
          /\ selPatch' = program
    /\ selKey' = -1
    /\ selMsgs' = selMsgs + 1
    /\ UNCHANGED <<selBank, notSel>>

\* note_on with a velocity above 0, up to the lookup
SelNoteOn ==
    /\ selMsgs < MaxMsgs + 1
    /\ selKey' = LookupKey(selChan)
    /\ selMsgs' = selMsgs + 1
    /\ UNCHANGED <<selChan, selBank, selPatch, notSel>>

SelNext ==
    \/ SelBankSelect
    \/ SelProgramChange
    \/ SelNoteOn

SpecSelect == SelInit /\ [][SelNext]_vars

(***************************************************************************)
(* SpecPool: note_on calls on a synthesizer whose pool is full of voices   *)
(* of different ages and stages.  A voice of the pool was started with one *)
(* of the two regions, had its note ended or not, played some blocks and   *)
(* was then killed (controller 120 on its channel, 1) or not.              *)
(***************************************************************************)
PoolBlocks == {0, 2, 3, 4}

\* a region with a delay and a hold phase
DelayedRegion ==
    [delay |-> 192, attack |-> 0, hold |-> 1024, decay |-> 512, sustain |-> VScale,
     release |-> 0, loop_mode |-> Continuous, length |-> 1024,
     start_loop |-> 256, end_loop |-> 1024]

\* a released voice has played at least three blocks (MIN_VOICE_LENGTH is
\* reached in the second); of the killed voices two ages are enough
PoolChoices ==
    {c \in [region : {SustainedRegion, PercussiveRegion, DelayedRegion}, ended : BOOLEAN,
            blocks : PoolBlocks, killed : BOOLEAN] :
        /\ c.ended => (c.blocks >= 3 /\ ~c.killed /\ c.region # DelayedRegion)
        /\ c.killed => (c.blocks <= 2 /\ c.region = SustainedRegion)}

\* enough note_ons to steal from the pool as found and once more
PoolNotes == 2

\* blocks calls of Voice::process, as long as the voice stays alive
RECURSIVE PlayedFor(_, _, _)
PlayedFor(voice, channel_info, blocks) ==
    IF blocks = 0 THEN [voice |-> voice, ok |-> TRUE]
    ELSE LET r == VoiceProcessBlock(voice, channel_info, BLOCK_SIZE)
         IN  IF r.ok THEN PlayedFor(r.voice, channel_info, blocks - 1) ELSE r

PoolVoice(choice) ==
    LET channel == IF choice.killed THEN 1 ELSE 0
        started == VoiceStart(DefaultVoice, choice.region, channel, 60, 100, 0)
        requested == IF choice.ended THEN VoiceEnd(started) ELSE started
        r == PlayedFor(requested, ChannelNew, choice.blocks)
    IN  [voice |-> IF choice.killed THEN VoiceKill(r.voice) ELSE r.voice, ok |-> r.ok]

\* the voices that are still active after their history
PoolVoices == {PoolVoice(c).voice : c \in {d \in PoolChoices : PoolVoice(d).ok}}

\* a full pool; the voice of slot i was started by the i-th note_on
PoolInit ==
    /\ block_size = BLOCK_SIZE
    /\ block_read = BLOCK_SIZE
    /\ \E pool \in [1..Capacity -> PoolVoices] :
          voices = [i \in 1..Capacity |-> [pool[i] EXCEPT !.id = i]]
    /\ active_voice_count = Capacity
    /\ channels = [c \in ChannelNumbers |-> ChannelNew]
    /\ synMsgs = 0
    /\ nextId = Capacity + 1
    /\ pedalDown = [c \in ChannelNumbers |-> FALSE]
    /\ synOp = [op |-> "new", blocks |-> 0, note |-> "none"]
    /\ EnvIdle
    /\ ChanIdle
    /\ PairIdle
    /\ LookIdle
    /\ MidiIdle
    /\ SetIdle
    /\ MixIdle
    /\ SeqIdle
    /\ SelIdle
    /\ LfoIdle
    /\ GainIdle
    /\ CutIdle
    /\ RendIdle
    /\ FpIdle

PoolNoteOn ==
    /\ synMsgs < PoolNotes
    /\ NoteOn(0, 60, 100)

PoolNext == PoolNoteOn

SpecPool == PoolInit /\ [][PoolNext]_vars

(***************************************************************************)
(* Lfo (lfo.rs).  delay, period and current_time are in units of           *)
(* 1/LfoScale of what the code holds in them (start stores the delay in    *)
(* seconds, render adds 1.0 to current_time), the frequency is in units of *)
(* 1/1000 Hz, and value is in units of 1/VScale.                           *)
(***************************************************************************)
LfoScale == 8
MaxLfoCalls == 5

LfoStart(l, delay, frequency) ==
    IF frequency > 1
    THEN [l EXCEPT !.active = TRUE,
                   !.delay = delay,
                   !.period = (1000 * LfoScale) \div frequency,
                   !.current_time = 0,
                   !.value = 0]
    ELSE [l EXCEPT !.active = FALSE, !.value = 0]

\* the triangle of render: 4*phase, 4*(0.5 - phase), 4*(phase - 1)
LfoTriangle(l, t) ==
    LET phase == (((t - l.delay) % l.period) * VScale) \div l.period
    IN  IF 4 * phase < VScale THEN 4 * phase
        ELSE IF 4 * phase < 3 * VScale THEN 4 * ((VScale \div 2) - phase)
        ELSE 4 * (phase - VScale)

\* Lfo::render: current_time += 1.0
LfoRender(l) ==
    IF ~l.active THEN l
    ELSE LET t == l.current_time + 1 * LfoScale
         IN  [l EXCEPT !.current_time = t,
                       !.value = IF t < l.delay THEN 0 ELSE LfoTriangle(l, t)]

(***************************************************************************)
(* SpecLfo: one Lfo, started with a delay and a frequency and rendered     *)
(* sample by sample; it may be started again at any time.                  *)
(***************************************************************************)
LfoDelays == {0, 4, 8, 12, 20, 24}
LfoFrequencies == {0, 1, 2, 400, 2000, 8000}

LfoInit ==
    /\ lfo = LfoDefault
    /\ lfoCalls = 0
    /\ lfoOut = 0
    /\ EnvIdle
    /\ ChanIdle
    /\ PairIdle
    /\ LookIdle
    /\ MidiIdle
    /\ SynIdle
    /\ SetIdle
    /\ MixIdle
    /\ SeqIdle
    /\ SelIdle
    /\ GainIdle
    /\ CutIdle
    /\ RendIdle
    /\ FpIdle

LfoStartCall ==
    /\ \E delay \in LfoDelays, frequency \in LfoFrequencies :
          lfo' = LfoStart(lfo, delay, frequency)
    /\ lfoCalls' = 0
    /\ lfoOut' = 0
    /\ UNCHANGED notLfo

LfoRenderCall ==
    /\ lfoCalls < MaxLfoCalls
    /\ lfo' = LfoRender(lfo)
    /\ lfoOut' = lfo'.value
    /\ lfoCalls' = lfoCalls + 1
    /\ UNCHANGED notLfo

LfoNext ==
    \/ LfoStartCall
    \/ LfoRenderCall

SpecLfo == LfoInit /\ [][LfoNext]_vars

(***************************************************************************)
(* SpecLive: the synthesizer with notes, the hold pedal and controller 120 *)
(* on one channel, rendered for as long as rendering is possible.  A voice *)
(* that nothing ends would play for ever, so a block is rendered only      *)
(* while every active voice is shorter than MaxVoiceBlocks blocks or some  *)
(* active voice is about to end (killed, released, or asked to release     *)
(* with the hold pedal off) and is shorter than LiveCap blocks.            *)
(***************************************************************************)
MaxLiveMsgs == 4
MaxLiveNotes == 1
LiveChannel == CHOOSE channel \in SynChannels : \A other \in SynChannels : channel <= other
LiveKeys == {60, 61}
LiveVelocity == CHOOSE velocity \in SynVelocities : velocity > 0
LiveBlockSize == 4 * BLOCK_SIZE
LiveIds == 1..MaxLiveNotes

\* the blocks a release of MIN_RELEASE samples lasts at most
LiveReleaseBlocks == (MIN_RELEASE \div LiveBlockSize) + 2
LiveCap == MaxVoiceBlocks + LiveReleaseBlocks * MaxLiveNotes

LiveEnding(voice) ==
    \/ voice.note_gain < NON_AUDIBLE
    \/ voice.voice_state = Released
    \/ voice.voice_state = ReleaseRequested /\ ~channels[voice.channel].hold_pedal

LiveInit ==
    /\ SynInit
    /\ block_size = LiveBlockSize

LiveNoteOn ==
    /\ synMsgs < MaxLiveMsgs
    /\ nextId <= MaxLiveNotes
    /\ \E key \in LiveKeys : NoteOn(LiveChannel, key, LiveVelocity)

LiveNoteOff ==
    /\ synMsgs < MaxLiveMsgs
    /\ \E key \in LiveKeys : NoteOn(LiveChannel, key, 0)

LiveController ==
    /\ synMsgs < MaxLiveMsgs
    /\ \E controller \in {64, 120}, value \in SynValues :
          Controller(LiveChannel, controller, value)

\* a render call changes the state whenever it is made: a call for half a
\* block moves block_read
LiveRenderEnabled ==
    \/ \A i \in 1..active_voice_count :
          voices[i].voice_length < MaxVoiceBlocks * block_size
    \/ \E i \in 1..active_voice_count :
          LiveEnding(voices[i]) /\ voices[i].voice_length < LiveCap * block_size

LiveRender ==
    /\ LiveRenderEnabled
    /\ \E length \in {block_size \div 2, block_size} :
          \E r \in {RenderLoop(voices, active_voice_count, channels, block_read, 0, length, 0)} :
              /\ voices' = r.voices
              /\ active_voice_count' = r.count
              /\ block_read' = r.block_read
              /\ synOp' = [op |-> "render", blocks |-> r.blocks, note |-> "none"]
    /\ UNCHANGED <<channels, block_size, synMsgs, nextId, pedalDown, notSyn>>

LiveNext ==
    \/ LiveNoteOn
    \/ LiveNoteOff
    \/ LiveController
    \/ LiveRender

\* blocks keep being rendered: weak fairness of LiveRender, with
\* ENABLED <<LiveRender>>_vars written out as LiveRenderEnabled
LiveFairness == (<>[]LiveRenderEnabled) => []<><<LiveRender>>_vars

SpecLive == LiveInit /\ [][LiveNext]_vars /\ LiveFairness

(***************************************************************************)
(* The gains and sends of Voice::process (voice.rs 252-290), in units of   *)
(* 1/VScale.  The regions of the model have no reverb send and no          *)
(* modulation of the volume, and start sets instrument_pan and             *)
(* instrument_chorus to 0.  The pan position pan + 50 runs from 0 to 100   *)
(* for the angles 0 to pi/2; CosTable holds the cosine at every tenth.     *)
(***************************************************************************)
CosTable == <<1000, 988, 951, 891, 809, 707, 588, 454, 309, 156, 0>>

PanCos(x) == CosTable[(x \div 10) + 1]
PanSin(x) == CosTable[((100 - x) \div 10) + 1]

get_volume(ch) == (VScale * ch.volume) \div 16383
get_expression(ch) == (VScale * ch.expression) \div 16383
get_pan(ch) == ((100 * ch.pan) \div 16383) - 50
get_reverb_send(ch) == (VScale * ch.reverb_send) \div 127
get_chorus_send(ch) == (VScale * ch.chorus_send) \div 127

\* mix_gain = note_gain * channel_gain * vol_env.value
MixGain(voice, channel_info) ==
    LET ve == (get_volume(channel_info) * get_expression(channel_info)) \div VScale
        channel_gain == (ve * ve) \div VScale
    IN  (((voice.note_gain * channel_gain) \div VScale) * voice.vol_env.value) \div VScale

\* the gains and sends process computes for the block
CurrentGains(g, voice, channel_info) ==
    LET mix_gain == MixGain(voice, channel_info)
        x == get_pan(channel_info) + 50
    IN  [g EXCEPT
            !.current_mix_gain_left =
                IF x <= 0 THEN mix_gain
                ELSE IF x >= 100 THEN 0
                ELSE (mix_gain * PanCos(x)) \div VScale,
            !.current_mix_gain_right =
                IF x <= 0 THEN 0
                ELSE IF x >= 100 THEN mix_gain
                ELSE (mix_gain * PanSin(x)) \div VScale,
            !.current_reverb_send = Clamp(get_reverb_send(channel_info), 0, VScale),
            !.current_chorus_send = Clamp(get_chorus_send(channel_info), 0, VScale)]

PromoteGains(g) ==
    [g EXCEPT !.previous_mix_gain_left = g.current_mix_gain_left,
              !.previous_mix_gain_right = g.current_mix_gain_right,
              !.previous_reverb_send = g.current_reverb_send,
              !.previous_chorus_send = g.current_chorus_send]

\* the tail of process without the copy at voice_length 0 (a bug)
GainUpdateWithoutCopy(g, voice, voice_length, channel_info) ==
    CurrentGains(PromoteGains(g), voice, channel_info)

\* the tail of process: voice is the voice as the envelope and the
\* oscillator left it, voice_length its length before the block is counted
GainUpdate(g, voice, voice_length, channel_info) ==
    LET promoted == PromoteGains(g)
        computed == CurrentGains(promoted, voice, channel_info)
    IN  IF voice_length = 0 THEN PromoteGains(computed) ELSE computed

\* Voice::process with its gains
GainVoiceProcess(g, channel_info) ==
    LET r == VoiceProcessBlock(g.voice, channel_info, BLOCK_SIZE)
    IN  IF ~r.ok THEN [voice |-> [g EXCEPT !.voice = r.voice], ok |-> FALSE]
        ELSE [voice |-> [GainUpdate(g, r.voice, g.voice.voice_length, channel_info)
                            EXCEPT !.voice = r.voice],
              ok |-> TRUE]

(***************************************************************************)
(* SpecGain: one voice slot that is started, ended, processed block by     *)
(* block and started again with the gains of the note before, on a channel *)
(* whose volume, pan and sends change between the blocks.                  *)
(***************************************************************************)
MaxGainBlocks == 3
MaxGainStarts == 2
MaxGainMsgs == 2
GainKeys == {60, 61}
GainControllers == {7, 10, 91, 93}
GainValues == {0, 127}

GainInit ==
    /\ gainVoice = DefaultGainVoice
    /\ gainChan = ChannelNew
    /\ gainActive = FALSE
    /\ gainDone = 0
    /\ gainStarts = 0
    /\ gainMsgs = 0
    /\ gainOp = [op |-> "new", ok |-> FALSE]
    /\ EnvIdle
    /\ ChanIdle
    /\ PairIdle
    /\ LookIdle
    /\ MidiIdle
    /\ SynIdle
    /\ SetIdle
    /\ MixIdle
    /\ SeqIdle
    /\ LfoIdle
    /\ SelIdle
    /\ CutIdle
    /\ RendIdle
    /\ FpIdle

\* Voice::start in a free slot or in the slot of a voice that is stolen
GainStart ==
    /\ gainStarts < MaxGainStarts
    /\ \E key \in GainKeys, velocity \in SynVelocities \ {0} :
          gainVoice' = [gainVoice EXCEPT !.voice =
                           VoiceStart(@, GetRegions(key, velocity).region, 0, key, velocity, 0)]
    /\ gainActive' = TRUE
    /\ gainDone' = 0
    /\ gainStarts' = gainStarts + 1
    /\ gainOp' = [op |-> "start", ok |-> TRUE]
    /\ UNCHANGED <<gainChan, gainMsgs, notGain>>

GainEnd ==
    /\ gainActive
    /\ gainVoice' = [gainVoice EXCEPT !.voice = VoiceEnd(@)]
    /\ gainOp' = [op |-> "end", ok |-> TRUE]
    /\ UNCHANGED <<gainChan, gainActive, gainDone, gainStarts, gainMsgs, notGain>>

GainController ==
    /\ gainMsgs < MaxGainMsgs
    /\ \E controller \in GainControllers, value \in GainValues :
          gainChan' = ChannelController(gainChan, controller, value)
    /\ gainOp' = [op |-> "controller", ok |-> TRUE]
    /\ gainMsgs' = gainMsgs + 1
    /\ UNCHANGED <<gainVoice, gainActive, gainDone, gainStarts, notGain>>

GainProcess ==
    /\ gainActive
    /\ gainDone < MaxGainBlocks
    /\ \E r \in {GainVoiceProcess(gainVoice, gainChan)} :
          /\ gainVoice' = r.voice
          /\ gainActive' = r.ok
          /\ gainDone' = IF r.ok THEN gainDone + 1 ELSE gainDone
          /\ gainOp' = [op |-> "process", ok |-> r.ok]
    /\ UNCHANGED <<gainChan, gainStarts, gainMsgs, notGain>>

GainNext ==
    \/ GainStart
    \/ GainEnd
    \/ GainController
    \/ GainProcess

SpecGain == GainInit /\ [][GainNext]_vars

(***************************************************************************)
(* The filter cutoff of Voice (voice.rs 138-148, 193-195, 236-249):        *)
(* cutoffs in Hz, amounts in cents, the values of the LFO and of the       *)
(* envelope in whole units, so that the cents are multiples of an octave.  *)
(***************************************************************************)
OctaveCents == 1200

\* cents_to_multiplying_factor(cents) * x for whole octaves
TimesCentsFactor(x, cents) ==
    LET octaves == cents \div OctaveCents
    IN  IF octaves >= 0 THEN x * (2 ^ octaves) ELSE x \div (2 ^ (0 - octaves))

\* Voice::start, the fields of the filter
CutVoiceStart(voice, region) ==
    [voice EXCEPT !.cutoff = region.initial_filter_cutoff_frequency,
                  !.mod_lfo_to_cutoff = 0,
                  !.mod_env_to_cutoff = 0,
                  !.dynamic_cutoff = FALSE,
                  !.smoothed_cutoff = region.initial_filter_cutoff_frequency]

\* Voice::process, the update of the cutoff
CutVoiceProcess(voice, mod_lfo_value, mod_env_value) ==
    IF voice.dynamic_cutoff
    THEN LET cents == voice.mod_lfo_to_cutoff * mod_lfo_value
                        + voice.mod_env_to_cutoff * mod_env_value
             new_cutoff == TimesCentsFactor(voice.cutoff, cents)
         IN  [voice EXCEPT !.smoothed_cutoff =
                 Clamp(new_cutoff, voice.smoothed_cutoff \div 2, 2 * voice.smoothed_cutoff)]
    ELSE voice

(***************************************************************************)
(* SpecCutoff: one voice started on regions with and without modulation of *)
(* the cutoff and processed for some blocks.                               *)
(***************************************************************************)
MaxCutBlocks == 3
CutCutoffs == {1000, 4000, 16000}
CutAmounts == {0 - OctaveCents, 0, OctaveCents}
CutRegions ==
    [initial_filter_cutoff_frequency : CutCutoffs,
     modulation_lfo_to_filter_cutoff_frequency : CutAmounts,
     modulation_envelope_to_filter_cutoff_frequency : CutAmounts]

CutInit ==
    /\ cutVoice = DefaultCutVoice
    /\ cutRegion = DefaultCutRegion
    /\ cutBlocks = 0
    /\ cutOp = "new"
    /\ EnvIdle
    /\ ChanIdle
    /\ PairIdle
    /\ LookIdle
    /\ MidiIdle
    /\ SynIdle
    /\ SetIdle
    /\ MixIdle
    /\ SeqIdle
    /\ LfoIdle
    /\ GainIdle
    /\ SelIdle
    /\ RendIdle
    /\ FpIdle

CutStart ==
    /\ \E region \in CutRegions :
          /\ cutVoice' = CutVoiceStart(cutVoice, region)
          /\ cutRegion' = region
    /\ cutBlocks' = 0
    /\ cutOp' = "start"
    /\ UNCHANGED notCut

CutProcess ==
    /\ cutOp # "new"
    /\ cutBlocks < MaxCutBlocks
    /\ \E mod_lfo_value \in {-1, 0, 1}, mod_env_value \in {0, 1} :
          cutVoice' = CutVoiceProcess(cutVoice, mod_lfo_value, mod_env_value)
    /\ cutBlocks' = cutBlocks + 1
    /\ cutOp' = "process"
    /\ UNCHANGED <<cutRegion, notCut>>

CutNext ==
    \/ CutStart
    \/ CutProcess

SpecCutoff == CutInit /\ [][CutNext]_vars

(***************************************************************************)
(* SpecRender: a synthesizer asked for buffers of any length, also of none *)
(* and of several blocks, and reset in between; the samples asked for and  *)
(* the calls of render_block are counted from the construction and from    *)
(* every reset.                                                            *)
(***************************************************************************)
MaxRenderSamples == 600
RenderLengths == {0, 1, BLOCK_SIZE - 1, BLOCK_SIZE, BLOCK_SIZE + 1, 3 * BLOCK_SIZE,
                  4 * BLOCK_SIZE, (4 * BLOCK_SIZE) + 1}

RendInit == SynInit

RendRender ==
    /\ \E length \in RenderLengths :
          /\ rendSamples + length <= MaxRenderSamples
          /\ \E r \in {RenderLoop(voices, active_voice_count, channels, block_read, 0, length, 0)} :
                /\ voices' = r.voices
                /\ active_voice_count' = r.count
                /\ block_read' = r.block_read
                /\ synOp' = [op |-> "render", blocks |-> r.blocks, note |-> "none"]
                /\ rendBlocks' = rendBlocks + r.blocks
          /\ rendSamples' = rendSamples + length
    /\ UNCHANGED <<channels, block_size, synMsgs, nextId, pedalDown, notSynRend>>

RendReset ==
    /\ synMsgs < MaxSynMsgs
    /\ active_voice_count' = 0
    /\ channels' = [c \in ChannelNumbers |-> ChannelReset(channels[c])]
    /\ block_read' = block_size
    /\ pedalDown' = [c \in ChannelNumbers |-> FALSE]
    /\ synOp' = [op |-> "reset", blocks |-> 0, note |-> "none"]
    /\ synMsgs' = synMsgs + 1
    /\ rendSamples' = 0
    /\ rendBlocks' = 0
    /\ UNCHANGED <<voices, block_size, nextId, notSynRend>>

RendNext ==
    \/ RendRender
    \/ RendReset

SpecRender == RendInit /\ [][RendNext]_vars

(***************************************************************************)
(* Oscillator::render (oscillator.rs 81-120), sample by sample: the        *)
(* position is a fixed-point number with FRAC_BITS bits of fraction, and a *)
(* call reads data[index1] and data[index2] and then adds pitch_ratio_fp   *)
(* to the position.  An index at or past the length of the data panics.    *)
(***************************************************************************)
FRAC_BITS == 24
FRAC_UNIT == 2 ^ FRAC_BITS

FpOscStart(loop_mode, length, start_loop, end_loop) ==
    [loop_mode |-> loop_mode, start_loop |-> start_loop, end_loop |-> end_loop,
     length |-> length, looping |-> (loop_mode # NoLoop), position_fp |-> 0]

FpOscRelease(osc) ==
    IF osc.loop_mode = LoopUntilNoteOff THEN [osc EXCEPT !.looping = FALSE] ELSE osc

\* if self.position_fp >= end_loop_fp { self.position_fp -= loop_length_fp; }
FpWrap(osc) ==
    IF osc.position_fp >= osc.end_loop * FRAC_UNIT
    THEN [osc EXCEPT !.position_fp = @ - (osc.end_loop - osc.start_loop) * FRAC_UNIT]
    ELSE osc

\* the oscillator a call of render leaves and what the call read
FpOscRender(osc, pitch_ratio_fp) ==
    IF osc.looping
    THEN LET wrapped == FpWrap(osc)
             index1 == wrapped.position_fp \div FRAC_UNIT
             index2 == IF index1 + 1 >= osc.end_loop
                       THEN index1 + 1 - (osc.end_loop - osc.start_loop)
                       ELSE index1 + 1
         IN  [osc |-> [wrapped EXCEPT !.position_fp = @ + pitch_ratio_fp],
              read |-> [result |-> IF index1 >= osc.length \/ index2 >= osc.length
                                   THEN "panic" ELSE "some",
                        looping |-> TRUE, index1 |-> index1, index2 |-> index2]]
    ELSE LET index == osc.position_fp \div FRAC_UNIT
         IN  IF index >= osc.length
             THEN [osc |-> osc,
                   read |-> [result |-> "none", looping |-> FALSE,
                             index1 |-> index, index2 |-> index]]
             ELSE [osc |-> [osc EXCEPT !.position_fp = @ + pitch_ratio_fp],
                   read |-> [result |-> IF index + 1 >= osc.length THEN "panic" ELSE "some",
                             looping |-> FALSE, index1 |-> index, index2 |-> index + 1]]

(***************************************************************************)
(* SpecOscillator: an oscillator started on a sample of FpLength frames    *)
(* with a loop inside it, rendered at pitch ratios below, at and above the *)
(* length of the loop, and released.                                       *)
(***************************************************************************)
MaxFpCalls == 5
FpLength == 8
FpLoops == {<<0, 2>>, <<2, 4>>, <<4, 8>>, <<1, 7>>}
FpRatios == {FRAC_UNIT \div 2, FRAC_UNIT, (3 * FRAC_UNIT) \div 2, 3 * FRAC_UNIT}

FpInit ==
    /\ \E loop_mode \in {Continuous, LoopUntilNoteOff}, loop \in FpLoops :
          fpOsc = FpOscStart(loop_mode, FpLength, loop[1], loop[2])
    /\ fpRead = NothingRead
    /\ fpCalls = 0
    /\ EnvIdle
    /\ ChanIdle
    /\ PairIdle
    /\ LookIdle
    /\ MidiIdle
    /\ SynIdle
    /\ SetIdle
    /\ MixIdle
    /\ SeqIdle
    /\ LfoIdle
    /\ GainIdle
    /\ CutIdle
    /\ RendIdle
    /\ SelIdle

FpRender ==
    /\ fpCalls < MaxFpCalls
    /\ fpRead.result # "panic"
    /\ \E pitch_ratio_fp \in FpRatios :
          \E r \in {FpOscRender(fpOsc, pitch_ratio_fp)} :
              /\ fpOsc' = r.osc
              /\ fpRead' = r.read
    /\ fpCalls' = fpCalls + 1
    /\ UNCHANGED notFp

FpRelease ==
    /\ fpOsc.looping
    /\ fpOsc.loop_mode = LoopUntilNoteOff
    /\ fpRead.result # "panic"
    /\ fpOsc' = FpOscRelease(fpOsc)
    /\ UNCHANGED <<fpRead, fpCalls, notFp>>

FpNext ==
    \/ FpRender
    \/ FpRelease

SpecOscillator == FpInit /\ [][FpNext]_vars

(***************************************************************************)
(* C5: between one start() of an envelope and the next, no render/process  *)
(* or release() step lowers the stage in the order DELAY < ATTACK < HOLD < *)
(* DECAY < RELEASE, and a render/process step (time advancing) leaves an   *)
(* envelope that is in DECAY or RELEASE in the same stage.                 *)
(***************************************************************************)
C5_StageMonotone ==
    [][envOp' # "start" =>
          /\ vol_env'.stage >= vol_env.stage
          /\ mod_env'.stage >= mod_env.stage
          /\ envOp' = "render" =>
                /\ vol_env.stage >= DECAY => vol_env'.stage = vol_env.stage
                /\ mod_env.stage >= DECAY => mod_env'.stage = mod_env.stage]_vars

\* a started volume envelope that time has carried two samples into DECAY
C5_Witness ==
    /\ envOp = "render"
    /\ vol_env.attack_slope # NoSlope
    /\ vol_env.stage = DECAY
    /\ vol_env.current_time >= vol_env.decay_start_time + 2

SpecChan == ChanInit /\ [][ChanNext]_vars

SpecPair == PairInit /\ [][PairNext]_vars

(***************************************************************************)
(* C6: on every coarse/fine pair, the coarse setter called with c leaves   *)
(* the low 7 bits of the raw value as they were and writes c to bits       *)
(* 7..13, the fine setter called with f leaves bits 7..13 as they were and *)
(* writes f to the low 7 bits, and the coarse setter with c followed by    *)
(* the fine setter with f leaves the raw value (c<<7)|f, whatever the      *)
(* value was before.                                                       *)
(***************************************************************************)
Low7(x) == x % 128
High7(x) == (x \div 128) % 128
LastPairOp == pairOps[Len(pairOps)]

C6_CoarseFine ==
    [][Len(pairOps') = Len(pairOps) + 1 =>
          LET op == pairOps'[Len(pairOps')]
              before == Raw(chan, pairX)
              after == Raw(chan', pairX)
          IN  /\ op[1] = "coarse" => Low7(after) = Low7(before) /\ High7(after) = op[2]
              /\ op[1] = "fine" => High7(after) = High7(before) /\ Low7(after) = op[2]
              /\ (op[1] = "fine" /\ Len(pairOps) >= 1 /\ LastPairOp[1] = "coarse")
                    => after = LastPairOp[2] * 128 + op[2]]_vars

\* the RPN selector, reset to -1, after coarse 85 and then fine 42
C6_Witness ==
    /\ pairX = "rpn"
    /\ pairOps = <<<<"coarse", 85>>, <<"fine", 42>>>>
    /\ chan.rpn = 85 * 128 + 42

(***************************************************************************)
(* C7: reset_all_controllers (controller 121) sets modulation to 0,        *)
(* expression to 127<<7, hold_pedal to false, rpn to -1 and pitch_bend to  *)
(* its centre, and leaves every other field of the channel unchanged.      *)
(***************************************************************************)
C7_ResetAllControllers ==
    [][(chanOp'.kind = "controller" /\ chanOp'.number = 121 /\ msgCount' = msgCount + 1) =>
          chan' = [chan EXCEPT !.modulation = 0,
                               !.expression = 127 * 128,
                               !.hold_pedal = FALSE,
                               !.rpn = -1,
                               !.pitch_bend = 0]]_vars

\* a reset of the controllers on a channel whose other registers were changed
C7_Witness ==
    /\ chanOp.kind = "controller" /\ chanOp.number = 121
    /\ chan.modulation = 0
    /\ chan.rpn = -1
    /\ chan.last_data_type = Rpn
    /\ \/ chan.coarse_tune # 0
       \/ chan.pitch_bend_range # 2 * 128
       \/ chan.fine_tune # 8192

(***************************************************************************)
(* C8: a data-entry message (controller 6 or 38) whose most recent         *)
(* selector message was an NRPN selector (controller 98 or 99) changes     *)
(* none of pitch-bend range, fine tune and coarse tune, also when the RPN  *)
(* selector still holds 0, 1 or 2.                                         *)
(***************************************************************************)
C8_NrpnGate ==
    [][(chanOp'.kind = "controller" /\ chanOp'.number \in {6, 38}
          /\ msgCount' = msgCount + 1 /\ lastSel = "nrpn") =>
          /\ chan'.pitch_bend_range = chan.pitch_bend_range
          /\ chan'.fine_tune = chan.fine_tune
          /\ chan'.coarse_tune = chan.coarse_tune]_vars

\* data entry after an NRPN selector while the RPN selector still holds 0
C8_Witness ==
    /\ chanOp.kind = "controller" /\ chanOp.number = 6 /\ chanOp.value = 127
    /\ lastSel = "nrpn"
    /\ chan.rpn = 0
    /\ chan.pitch_bend_range = 2 * 128

SpecLookup == LookInit /\ [][LookNext]_vars

(***************************************************************************)
(* C9: get_regions(bank, patch, ...) resolves to the preset with id        *)
(* (bank<<16)|patch if there is one; otherwise, for bank < 128, to preset  *)
(* (0, patch) if there is one and, for bank >= 128, to preset (128, 0) if  *)
(* there is one; otherwise to the default preset, the one with the         *)
(* smallest id.  With only presets (0,0) and (128,0), (0,17) resolves to   *)
(* (0,0) and (128,25) to (128,0).                                          *)
(***************************************************************************)
IdOf(preset) == preset.bank_number * 65536 + preset.patch_number
PresentIds == {IdOf(presets[i]) : i \in DOMAIN presets}
SmallestId == CHOOSE id \in PresentIds : \A other \in PresentIds : id <= other
ExpectedId(bank, patch) ==
    IF bank * 65536 + patch \in PresentIds THEN bank * 65536 + patch
    ELSE IF bank < 128 /\ patch \in PresentIds THEN patch
    ELSE IF bank >= 128 /\ 128 * 65536 \in PresentIds THEN 128 * 65536
    ELSE SmallestId

C9_PresetResolution ==
    (lookPc = "ready" /\ lookResult # 0) =>
        /\ lookResult \in DOMAIN presets
        /\ IdOf(presets[lookResult]) = ExpectedId(lookQuery[1], lookQuery[2])
        /\ PresentIds = {0, 128 * 65536} =>
              /\ lookQuery = <<0, 17>> => IdOf(presets[lookResult]) = 0
              /\ lookQuery = <<128, 25>> => IdOf(presets[lookResult]) = 128 * 65536

\* only (0,0) and (128,0) present, and drum patch 25 resolved to (128,0)
C9_Witness ==
    /\ lookPc = "ready"
    /\ PresentIds = {0, 128 * 65536}
    /\ lookQuery = <<128, 25>>
    /\ lookResult # 0
    /\ IdOf(presets[lookResult]) = 128 * 65536

(***************************************************************************)
(* C10: the tempo events of track 0 apply to the other tracks at their     *)
(* absolute times, also inside a single delta: the time of every           *)
(* linearized event is the time of its absolute tick under the tempo map   *)
(* of track 0.  With PPQ 480, track 0 setting 120 BPM at tick 0 and 60 BPM *)
(* at tick 480, and track 1 holding a NoteOn at tick 960, the NoteOn is at *)
(* 1.5 s.                                                                  *)
(***************************************************************************)
\* the tempo events of track 0 from event k on, with their absolute ticks
RECURSIVE TempoMap(_, _, _)
TempoMap(track, k, tick) ==
    IF k > Len(track) THEN <<>>
    ELSE LET at == tick + track[k].delta
         IN  IF track[k].kind = "tempo"
             THEN <<[tick |-> at, tempo |-> track[k].tempo]>> \o TempoMap(track, k + 1, at)
             ELSE TempoMap(track, k + 1, at)

\* the microseconds from from_tick to to_tick, tempo changes taking effect
\* at their ticks
RECURSIVE TimeOfTick(_, _, _, _, _)
TimeOfTick(map, i, from_tick, us_per_beat, to_tick) ==
    IF i > Len(map) \/ map[i].tick >= to_tick
    THEN DeltaUs(to_tick - from_tick, us_per_beat, smf.ticks_per_beat)
    ELSE DeltaUs(map[i].tick - from_tick, us_per_beat, smf.ticks_per_beat)
         + TimeOfTick(map, i + 1, map[i].tick, map[i].tempo, to_tick)

ScenarioSmf ==
    [ticks_per_beat |-> 480,
     tracks |-> << <<[delta |-> 0, kind |-> "tempo", tempo |-> 500000],
                     [delta |-> 480, kind |-> "tempo", tempo |-> 1000000]>>,
                   <<[delta |-> 960, kind |-> "midi", tempo |-> 0]>> >>]

C10_TempoAtAbsoluteTimes ==
    midiPc = "done" =>
        /\ \A n \in DOMAIN events :
              events[n].time
                 = TimeOfTick(TempoMap(smf.tracks[1], 1, 0), 1, 0, DEFAULT_US_PER_BEAT,
                              events[n].tick)
        /\ smf = ScenarioSmf => events[1].time = 1500000

\* C11: a note_on with a velocity above 0 for which no region is found
\* leaves the active voice count, every voice slot and every channel as
\* they were
C11_MissChangesNothing ==
    [][(synMsgs' = synMsgs + 1 /\ synOp'.op = "note_on" /\ synOp'.note = "miss")
          => UNCHANGED <<voices, active_voice_count, channels>>]_vars

\* a note_on found no region while a voice was active
C11_Witness ==
    /\ synOp.op = "note_on"
    /\ synOp.note = "miss"
    /\ active_voice_count > 0

(***************************************************************************)
(* C15: a sequencer that is played once and never stopped dispatches the   *)
(* events of its file one by one in list order, each at a block boundary   *)
(* whose start time (blocks rendered so far times block_size) is at or     *)
(* after the event's time and less than one block after it, and no event   *)
(* due at a boundary already passed is left waiting.                       *)
(***************************************************************************)
C15_DispatchedAtFirstBoundary ==
    (seqOps.stop = 0 /\ seqOps.play <= 1) =>
        /\ Len(dispatched) = msg_index
        /\ msg_index <= Len(seqFile)
        /\ \A i \in DOMAIN dispatched :
              /\ dispatched[i].index = i
              /\ dispatched[i].at = dispatched[i].rendered * block_size
              /\ dispatched[i].at >= seqFile[i].time
              /\ dispatched[i].at - seqFile[i].time < block_size
        /\ \A i \in DOMAIN seqFile :
              (midi_file.some /\ seqFile[i].time <= seq_current_time - block_size)
                  => i <= msg_index

\* both events of a file dispatched, the second two blocks after the first
C15_Witness ==
    /\ seqOps.stop = 0
    /\ seqOps.play <= 1
    /\ Len(seqFile) = 2
    /\ msg_index = 2
    /\ seqFile[1].time = 0
    /\ seqFile[2].time = 100
    /\ dispatched[1].at = 0
    /\ dispatched[2].at = 2 * block_size

(***************************************************************************)
(* C16: whenever the sequencer dispatches events, the synthesizer is at a  *)
(* block boundary of its own: block_read equals block_size.                *)
(***************************************************************************)
C16_DispatchAtSynthBoundary ==
    \A i \in DOMAIN dispatched : dispatched[i].block_read = block_size

(***************************************************************************)
(* C17: note_off_all(true) leaves no voice active, and a voice that is not *)
(* active never becomes active again (a later note_on starts a new voice), *)
(* so no voice active before the call contributes to a later block.        *)
(* Controller 120 on a channel kills the active voices of that channel     *)
(* (note_gain 0) and leaves the voices of the other channels as they are;  *)
(* a killed voice stays killed and no killed voice is active once a block  *)
(* has been rendered.                                                      *)
(***************************************************************************)
C17_ImmediateSilence ==
    [][/\ NoteOffAll(TRUE) => ActiveIds' = {}
       /\ ActiveIds' \subseteq (ActiveIds \cup {nextId})
       /\ \A c \in SynChannels, v \in SynValues :
             Controller(c, 120, v) =>
                 /\ active_voice_count' = active_voice_count
                 /\ \A i \in 1..active_voice_count :
                       IF voices[i].channel = c
                       THEN /\ voices'[i].id = voices[i].id
                            /\ voices'[i].note_gain < NON_AUDIBLE
                       ELSE voices'[i] = voices[i]
       /\ \A i \in 1..active_voice_count :
             \A j \in 1..active_voice_count' :
                 (voices'[j].id = voices[i].id /\ voices[i].note_gain < NON_AUDIBLE)
                     => voices'[j].note_gain < NON_AUDIBLE
       /\ (synOp'.op = "render" /\ synOp'.blocks > 0) =>
             \A j \in 1..active_voice_count' : voices'[j].note_gain >= NON_AUDIBLE]_vars

\* a block was rendered after controller 120: the killed voice has left the
\* active voices and a voice of the other channel is still active
C17_Witness ==
    /\ synOp.op = "render"
    /\ synOp.blocks > 0
    /\ active_voice_count = 1
    /\ \E j \in (active_voice_count + 1)..Len(voices) :
          /\ voices[j].id # 0
          /\ voices[j].note_gain < NON_AUDIBLE
          /\ voices[j].channel # voices[1].channel

(***************************************************************************)
(* C18: once a bank select with value b and a program change with value p *)
(* have been sent to a channel, in either order, the next note_on looks up *)
(* the preset id (b << 16) | p.                                            *)
(***************************************************************************)
C18_LookupUsesBankAndPatch ==
    (selKey # -1 /\ selBank # -1 /\ selPatch # -1) => selKey = PresetId(selBank, selPatch)

(***************************************************************************)
(* C19: the linearized event list is non-decreasing in time, and it is a   *)
(* merge of the tracks: every channel message of every track is in it      *)
(* exactly once, nothing else is, and the events of one track keep their   *)
(* order.                                                                  *)
(***************************************************************************)
C19_SortedMerge ==
    midiPc = "done" =>
        /\ \A n \in 1..(Len(events) - 1) : events[n].time <= events[n + 1].time
        /\ \A t \in DOMAIN smf.tracks :
              \A k \in DOMAIN smf.tracks[t] :
                  Cardinality({n \in DOMAIN events :
                                  events[n].track = t /\ events[n].index = k})
                      = IF smf.tracks[t][k].kind = "midi" THEN 1 ELSE 0
        /\ \A n \in DOMAIN events :
              /\ events[n].track \in DOMAIN smf.tracks
              /\ events[n].index \in DOMAIN smf.tracks[events[n].track]
        /\ \A m, n \in DOMAIN events :
              (m < n /\ events[m].track = events[n].track)
                  => events[m].index < events[n].index

\* a message of the first track lies between two messages of the second
C19_Witness ==
    /\ midiPc = "done"
    /\ Len(events) = 3
    /\ events[1].track = 2
    /\ events[2].track = 1
    /\ events[3].track = 2
    /\ events[1].time < events[2].time
    /\ events[2].time < events[3].time

\* the priority the claim gives a voice: 0 when its note_gain is inaudible,
\* else 5 for DELAY down to 1 for RELEASE
C20_Priority(voice) ==
    IF voice.note_gain < NON_AUDIBLE THEN 0
    ELSE CASE voice.vol_env.stage = DELAY -> 5
           [] voice.vol_env.stage = ATTACK -> 4
           [] voice.vol_env.stage = HOLD -> 3
           [] voice.vol_env.stage = DECAY -> 2
           [] voice.vol_env.stage = RELEASE -> 1

(***************************************************************************)
(* C20: a note_on that finds the pool full starts its voice in the slot of *)
(* an active voice of the lowest priority, and among the voices of that    *)
(* priority of one with the largest voice_length; the other slots and the  *)
(* active count stay as they are.                                          *)
(***************************************************************************)
C20_StealsLowestPriority ==
    [][(synMsgs' = synMsgs + 1 /\ synOp'.op = "note_on" /\ synOp'.note = "stolen") =>
          /\ active_voice_count = Len(voices)
          /\ active_voice_count' = active_voice_count
          /\ \E s \in 1..active_voice_count :
                /\ voices'[s].id = nextId
                /\ \A i \in 1..active_voice_count :
                      /\ C20_Priority(voices[s]) <= C20_Priority(voices[i])
                      /\ C20_Priority(voices[i]) = C20_Priority(voices[s])
                             => voices[i].voice_length <= voices[s].voice_length
                      /\ i # s => voices'[i] = voices[i]]_vars

\* the voice of the second slot was taken although the first slot holds a
\* voice of the greatest length: the priority decided, not the age
C20_Witness ==
    /\ synOp.op = "note_on"
    /\ synOp.note = "stolen"
    /\ synMsgs = 1
    /\ voices[2].id = nextId - 1
    /\ voices[1].voice_length = 4 * block_size
    /\ C20_Priority(voices[1]) > 0

(***************************************************************************)
(* C21: as long as a slot holds the same voice (no start() in between),    *)
(* its voice_state changes only from Playing to ReleaseRequested, in a     *)
(* note or controller message, and from ReleaseRequested to Released, in a *)
(* rendered block; end() leaves a voice that is not Playing as it is.      *)
(***************************************************************************)
C21_StateOrder ==
    [][/\ \A i \in DOMAIN voices :
             voices[i].voice_state # Playing => VoiceEnd(voices[i]) = voices[i]
       /\ \A i \in DOMAIN voices :
             \A j \in DOMAIN voices :
                 (voices[i].id # 0 /\ voices'[j].id = voices[i].id
                     /\ voices'[j].voice_state # voices[i].voice_state)
                 => \/ /\ voices[i].voice_state = Playing
                       /\ voices'[j].voice_state = ReleaseRequested
                       /\ synOp'.op \in {"note_on", "message"}
                    \/ /\ voices[i].voice_state = ReleaseRequested
                       /\ voices'[j].voice_state = Released
                       /\ synOp'.op = "render"]_vars

\* a message arrived while an active voice was Released
C21_Witness ==
    /\ synOp.op \in {"note_on", "message"}
    /\ \E i \in 1..active_voice_count : voices[i].voice_state = Released

\* the voice may be released by its next process call, as the claim has it
C22_Due(voice) ==
    /\ voice.voice_state = ReleaseRequested
    /\ voice.voice_length >= MIN_VOICE_LENGTH
    /\ ~channels[voice.channel].hold_pedal

\* C22 as stated: a rendered block moves an active voice to Released exactly
\* if its voice_length has reached SAMPLE_RATE / 500, its state is
\* ReleaseRequested and the hold pedal of its channel is off
C22_ReleasedAtFirstChance ==
    [][(synOp'.op = "render" /\ synOp'.blocks > 0) =>
          \A i \in 1..active_voice_count :
              \A j \in DOMAIN voices :
                  voices'[j].id = voices[i].id =>
                      (BecomesReleased(voices[i], voices'[j]) <=> C22_Due(voices[i]))]_vars

(***************************************************************************)
(* C22, amended: a rendered block moves an active voice to Released        *)
(* exactly if its voice_length has reached SAMPLE_RATE / 500, its state is *)
(* ReleaseRequested, the hold pedal of its channel is off and the voice    *)
(* has not been killed (its note_gain is audible).                         *)
(***************************************************************************)
C22_ReleasedUnlessKilled ==
    [][(synOp'.op = "render" /\ synOp'.blocks > 0) =>
          \A i \in 1..active_voice_count :
              \A j \in DOMAIN voices :
                  voices'[j].id = voices[i].id =>
                      (BecomesReleased(voices[i], voices'[j])
                          <=> (C22_Due(voices[i]) /\ voices[i].note_gain >= NON_AUDIBLE))]_vars

\* note_off came before the first block of the voice: the block was rendered
\* with the hold pedal off and the voice is still only ReleaseRequested
C22_Witness ==
    /\ synOp.op = "render"
    /\ synOp.blocks > 0
    /\ \E i \in 1..active_voice_count :
          /\ voices[i].voice_state = ReleaseRequested
          /\ voices[i].voice_length = block_size
          /\ ~channels[voices[i].channel].hold_pedal
          /\ block_size < MIN_VOICE_LENGTH

(***************************************************************************)
(* C23: a data-entry message whose most recent selector message was an RPN *)
(* selector is routed by the 14-bit RPN value: under RPN 0 the coarse      *)
(* entry writes the high 7 bits and the fine entry the low 7 bits of the   *)
(* pitch-bend range, under RPN 1 they write the high and the low 7 bits of *)
(* fine tune, under RPN 2 the coarse entry sets coarse tune to value - 64, *)
(* and the fine entry under RPN 2 and both entries under every other RPN   *)
(* value (-1 after a reset of the controllers included) change none of the *)
(* three registers.                                                        *)
(***************************************************************************)
Rpn14(ch) == Bits16(ch.rpn) % 16384
C23_Tuning(ch) == <<ch.pitch_bend_range, ch.fine_tune, ch.coarse_tune>>
C23_RpnRouting ==
    [][(chanOp'.kind = "controller" /\ chanOp'.number \in {6, 38}
          /\ msgCount' = msgCount + 1 /\ lastSel = "rpn") =>
          LET value == chanOp'.value
              coarse == chanOp'.number = 6
          IN  /\ chan'.rpn = chan.rpn
              /\ (Rpn14(chan) = 0 /\ coarse) =>
                    /\ High7(chan'.pitch_bend_range) = value
                    /\ Low7(chan'.pitch_bend_range) = Low7(chan.pitch_bend_range)
                    /\ chan'.fine_tune = chan.fine_tune
                    /\ chan'.coarse_tune = chan.coarse_tune
              /\ (Rpn14(chan) = 0 /\ ~coarse) =>
                    /\ Low7(chan'.pitch_bend_range) = value
                    /\ High7(chan'.pitch_bend_range) = High7(chan.pitch_bend_range)
                    /\ chan'.fine_tune = chan.fine_tune
                    /\ chan'.coarse_tune = chan.coarse_tune
              /\ (Rpn14(chan) = 1 /\ coarse) =>
                    /\ High7(chan'.fine_tune) = value
                    /\ Low7(chan'.fine_tune) = Low7(chan.fine_tune)
                    /\ chan'.pitch_bend_range = chan.pitch_bend_range
                    /\ chan'.coarse_tune = chan.coarse_tune
              /\ (Rpn14(chan) = 1 /\ ~coarse) =>
                    /\ Low7(chan'.fine_tune) = value
                    /\ High7(chan'.fine_tune) = High7(chan.fine_tune)
                    /\ chan'.pitch_bend_range = chan.pitch_bend_range
                    /\ chan'.coarse_tune = chan.coarse_tune
              /\ (Rpn14(chan) = 2 /\ coarse) =>
                    /\ chan'.coarse_tune = value - 64
                    /\ chan'.pitch_bend_range = chan.pitch_bend_range
                    /\ chan'.fine_tune = chan.fine_tune
              /\ ((Rpn14(chan) = 2 /\ ~coarse) \/ Rpn14(chan) \notin {0, 1, 2}) =>
                    C23_Tuning(chan') = C23_Tuning(chan)]_vars

\* a fine data entry under RPN 2 following a coarse one that set coarse tune
C23_Witness ==
    /\ chanOp.kind = "controller" /\ chanOp.number = 38 /\ chanOp.value = 0
    /\ lastSel = "rpn"
    /\ chan.rpn = 2
    /\ chan.coarse_tune = 127 - 64

(***************************************************************************)
(* C25: an active Lfo started with a delay of d seconds returns 0 from     *)
(* every render call made while the elapsed time, one sample of            *)
(* 1/SAMPLE_RATE seconds for each call, is below d: from the first calls   *)
(* numbering fewer than d * SAMPLE_RATE.                                   *)
(***************************************************************************)
C25_ZeroDuringDelay ==
    (lfo.active /\ lfoCalls >= 1 /\ lfoCalls * LfoScale < lfo.delay * SAMPLE_RATE)
        => lfoOut = 0

(***************************************************************************)
(* C24: if a voice is ReleaseRequested, the hold pedal of its channel is   *)
(* off from some point on and blocks keep being rendered, the voice is     *)
(* eventually released and eventually removed from the active voices.      *)
(***************************************************************************)
LiveActive(id) == \E i \in 1..active_voice_count : voices[i].id = id
LiveInState(id, state) ==
    \E i \in DOMAIN voices : voices[i].id = id /\ voices[i].voice_state = state
LiveRequested(id) ==
    \E i \in 1..active_voice_count :
        voices[i].id = id /\ voices[i].voice_state = ReleaseRequested
LivePedalOff == ~channels[LiveChannel].hold_pedal

\* a voice that a render call removes is not processed again, so to be
\* released at all it has to be Released when it is removed
C24_ReleasedAndRemoved ==
    [][synOp'.op = "render" =>
          \A i \in 1..active_voice_count : \A j \in DOMAIN voices :
              (/\ voices[i].voice_state = ReleaseRequested
               /\ voices'[j].id = voices[i].id
               /\ j > active_voice_count')
              => voices'[j].voice_state = Released]_vars

(***************************************************************************)
(* C24, amended: under the same conditions the voice is eventually removed *)
(* from the active voices; it is released before that unless a process     *)
(* call drops it first.                                                    *)
(***************************************************************************)
C24_EventuallyRemoved ==
    \A id \in LiveIds :
        (<>[]LivePedalOff) => (LiveRequested(id) ~> ~LiveActive(id))

\* a voice that was released after the pedal went up and has been removed
\* by a render call
C24_Witness ==
    /\ synOp.op = "render"
    /\ LivePedalOff
    /\ pedalDown[LiveChannel] = FALSE
    /\ \E id \in LiveIds : LiveInState(id, Released) /\ ~LiveActive(id)

(***************************************************************************)
(* C26: after the first successful process of a newly started voice, also  *)
(* in a slot that holds the gains of the voice before, the previous mix    *)
(* gains and the previous reverb and chorus sends equal the current ones;  *)
(* after every later successful process they equal the current ones of the *)
(* process before.                                                         *)
(***************************************************************************)
PreviousGains(g) ==
    <<g.previous_mix_gain_left, g.previous_mix_gain_right,
      g.previous_reverb_send, g.previous_chorus_send>>
CurrentGainsOf(g) ==
    <<g.current_mix_gain_left, g.current_mix_gain_right,
      g.current_reverb_send, g.current_chorus_send>>

C26_PreviousGains ==
    [][(gainOp'.op = "process" /\ gainOp'.ok) =>
          IF gainDone = 0
          THEN PreviousGains(gainVoice') = CurrentGainsOf(gainVoice')
          ELSE PreviousGains(gainVoice') = CurrentGainsOf(gainVoice)]_vars

\* the first block of a note started in a slot whose gains were others
C26_Witness ==
    /\ gainOp.op = "process" /\ gainOp.ok
    /\ gainStarts = MaxGainStarts
    /\ gainDone = 1
    /\ gainVoice.current_mix_gain_left > 0
    /\ gainVoice.current_mix_gain_left # gainVoice.current_mix_gain_right
    /\ gainVoice.current_reverb_send > 0

(***************************************************************************)
(* C27: after Voice::start, dynamic_cutoff is true exactly when the        *)
(* region's amount of modulation LFO to cutoff or its amount of modulation *)
(* envelope to cutoff is not 0.                                            *)
(***************************************************************************)
C27_DynamicCutoff ==
    cutOp = "start" =>
        (cutVoice.dynamic_cutoff <=>
            \/ cutRegion.modulation_lfo_to_filter_cutoff_frequency # 0
            \/ cutRegion.modulation_envelope_to_filter_cutoff_frequency # 0)

(***************************************************************************)
(* C28: one call of VoiceCollection::process calls Voice::process exactly  *)
(* once on every voice that is active when it starts, the voice swapped    *)
(* into the slot of a removed voice included, and ends; after it the       *)
(* active slots hold exactly the voices whose process returned true.       *)
(***************************************************************************)
C28_ProcessedOnce(i) == VoiceProcess(voices[i], channels[voices[i].channel])

C28_EachVoiceOnce ==
    [][(synOp'.op = "render" /\ synOp'.blocks = 1) =>
          /\ \A i \in 1..active_voice_count :
                \E j \in 1..active_voice_count :
                    /\ voices'[j] = C28_ProcessedOnce(i).voice
                    /\ (j <= active_voice_count') <=> C28_ProcessedOnce(i).ok
          /\ active_voice_count' =
                Cardinality({i \in 1..active_voice_count : C28_ProcessedOnce(i).ok})
          /\ \A j \in (active_voice_count + 1)..Len(voices) : voices'[j] = voices[j]]_vars

\* the first of two voices returned false and the second, swapped into its
\* slot, was processed for its first block
C28_Witness ==
    /\ synOp.op = "render" /\ synOp.blocks = 1
    /\ active_voice_count = 1
    /\ nextId = 3
    /\ voices[1].id = 2
    /\ voices[2].id = 1
    /\ voices[1].voice_length = block_size

(***************************************************************************)
(* C29: block_read is always between 0 and block_size, and when n samples  *)
(* have been asked of render since the construction or the last reset,     *)
(* render_block has run ceil(n / block_size) times, however the n samples  *)
(* were split over the calls.                                              *)
(***************************************************************************)
CeilDiv(n, d) == (n + d - 1) \div d

C29_BlocksRendered ==
    /\ 0 <= block_read /\ block_read <= block_size
    /\ rendBlocks = CeilDiv(rendSamples, block_size)

\* a call that was served from the block the call before had left unread,
\* in a run with a reset
C29_Witness ==
    /\ synOp.op = "render" /\ synOp.blocks = 0
    /\ synMsgs > 0
    /\ rendBlocks >= 2
    /\ rendSamples % block_size # 0

(***************************************************************************)
(* C30: while an oscillator is looping, with 0 <= start_loop < end_loop    *)
(* inside the data, both sample indices a render call reads are below      *)
(* end_loop, at every pitch ratio, those whose increment for one sample    *)
(* exceeds the length of the loop included.                                *)
(***************************************************************************)
C30_IndicesInLoop ==
    (fpRead.result # "none" /\ fpRead.looping) =>
        /\ fpRead.index1 < fpOsc.end_loop
        /\ fpRead.index2 < fpOsc.end_loop

====
